---------------------------- MODULE Spec2Model ----------------------------
(***************************************************************************)
(* State-machine model of gpodder.gtkui.model: the episode list store with *)
(* its time-sliced BackgroundUpdate, and the view projections (visibility  *)
(* predicates) of the episode list and of the podcast list.                *)
(*                                                                         *)
(* Representation.  Python None is written 0 for an object reference (an   *)
(* episode or a source tag; the real ones are positive), <<>> for an       *)
(* optional value whose presence is <<v>>, and "None" for a string column. *)
(* Text that the code searches or sorts is a sequence of character codes.  *)
(***************************************************************************)
EXTENDS Integers, Sequences, FiniteSets, TLC

VARIABLES
    rows,                   \* EpisodeListModel: the Gtk.ListStore rows
    background_update,      \* <<>> (None) or <<BackgroundUpdate>>
    background_update_tag,  \* 0 (None) or the idle source id
    idle_sources,           \* source ids registered with the main loop
    view_mode,              \* EpisodeListModel._view_mode
    search_term,            \* EpisodeListModel._search_term, <<>> is None
    all_episodes_view,      \* EpisodeListModel._all_episodes_view
    entity,                 \* state of the episodes that change: id -> attributes
    visible,                \* EpisodeListModel._filter: which rows the filter model shows
    raised,                 \* an exception escaped a handler
    channel,                \* history: the channel of the last replace_from_channel
    slice,                  \* history: what the last BackgroundUpdate.update did
    merge,                  \* history: what the last update_all started from
    filter_changed,         \* history: arguments of _on_filter_changed in the last operation
    base,                   \* history: rows at the end of the last undisturbed full update
    disturbed,              \* history: an episode changed since the updater was created
    episode_op,             \* history: the last operation on the episode list
    prows,                  \* PodcastListModel: the Gtk.ListStore rows
    pview_mode,             \* PodcastListModel._view_mode
    psearch_term,           \* PodcastListModel._search_term, <<>> is None
    pvisible,               \* PodcastListModel._filter: which rows the filter model shows
    podcast_paused,         \* the podcasts whose pause_subscription is set
    podcast_stats,          \* get_statistics() of every podcast
    cover_downloader,       \* PodcastListModel._cover_downloader is not None
    cover_cache,            \* PodcastListModel._cover_cache: url -> pixbuf
    max_image_side,         \* PodcastListModel._max_image_side
    covers,                 \* the image the cover downloader has for each url
    scaled,                 \* number of pixbufs scale_simple has created
    thumb,                  \* history: url -> the last thumbnails returned for it
    podcast_op,             \* history: the last operation on the podcast list
    focus                   \* which part of the module a run exercises

evars == <<rows, background_update, background_update_tag, idle_sources,
           view_mode, search_term, all_episodes_view, entity, visible, raised,
           channel, slice, merge, filter_changed, base, disturbed, episode_op>>

\* the podcasts as the entity provider holds them
gvars == <<podcast_paused, podcast_stats>>

\* the thumbnail cache of the podcast list
cvars == <<cover_downloader, cover_cache, max_image_side, covers, scaled, thumb, podcast_op>>

pvars == <<prows, pview_mode, psearch_term, pvisible, gvars, cvars>>

vars == <<evars, pvars, focus>>

-----------------------------------------------------------------------------
(* Bounds of the model *)

\* episodes of the short channel
SmallLen == 2

\* episodes of the long channel: more than two batches
MaxEpisodes == 101

\* pixbufs that scale_simple creates in one run
MaxPixbufs == 3

-----------------------------------------------------------------------------
(* Program constants *)

\* "if self.index % 50 == 0"
BATCH == 50

\* "(time.time() - started) > 0.02", in microseconds
TIME_LIMIT == 20000

VIEW_ALL == 0
VIEW_UNDELETED == 1
VIEW_DOWNLOADED == 2
VIEW_UNPLAYED == 3

ViewModes == {VIEW_ALL, VIEW_UNDELETED, VIEW_DOWNLOADED, VIEW_UNPLAYED}

\* gpodder.STATE_NORMAL, STATE_DOWNLOADED, STATE_DELETED
EpisodeStates == {"normal", "downloaded", "deleted"}

-----------------------------------------------------------------------------
(* Text *)

\* character codes: 65 is "A", 97 is "a", 98 is "b", 40 is an open parenthesis
LowerChar(c) == IF c >= 65 /\ c <= 90 THEN c + 32 ELSE c

\* str.lower()
Lower(s) == [i \in 1..Len(s) |-> LowerChar(s[i])]

\* "key in text"
Contains(text, key) ==
    \E i \in 0..(Len(text) - Len(key)) :
        \A j \in 1..Len(key) : text[i + j] = key[j]

\* the search terms a user types: "a", "B", a term nothing matches, a malformed query
SearchTerms == {<<97>>, <<66>>, <<122>>, <<40>>}

-----------------------------------------------------------------------------
(* Episodes: the entity provider *)

EpId(c, j) == c * 1000 + j

\* the episodes of podcast c, newest first
EpisodesOf(c, n) == [i \in 1..n |-> EpId(c, n + 1 - i)]

ShortChannel == [isNone |-> FALSE, proxy |-> FALSE, episodes |-> EpisodesOf(1, SmallLen)]
LongChannel == [isNone |-> FALSE, proxy |-> FALSE, episodes |-> EpisodesOf(2, MaxEpisodes)]
NoneChannel == [isNone |-> TRUE, proxy |-> FALSE, episodes |-> <<>>]
\* a PodcastChannelProxy over the short channel
ProxyChannel == [isNone |-> FALSE, proxy |-> TRUE, episodes |-> EpisodesOf(1, SmallLen)]

SmallChannels == {NoneChannel, ShortChannel, ProxyChannel}
Channels == SmallChannels \cup {LongChannel}

\* the episodes whose state changes while the program runs
MutableEpisodes == {EpId(1, 1), EpId(1, SmallLen), EpId(2, 1)}

EpisodeAttrs ==
    [state : EpisodeStates, is_new : BOOLEAN, downloading : BOOLEAN,
     unreadable : BOOLEAN]

\* the state an episode is in when the program starts
InitialAttr(e) ==
    [state |-> IF e % 3 = 0 THEN "normal" ELSE IF e % 3 = 1 THEN "downloaded" ELSE "deleted",
     is_new |-> (e % 2 = 0),
     downloading |-> (e % 7 = 0),
     unreadable |-> FALSE]

Attr(ent, e) == IF e \in DOMAIN ent THEN ent[e] ELSE InitialAttr(e)

\* episode.title: "a", "Ab" or "b"
Title(e) == IF e % 3 = 0 THEN <<97>> ELSE IF e % 3 = 1 THEN <<65, 98>> ELSE <<98>>

\* episode.url, one per episode
Url(e) == <<e>>

-----------------------------------------------------------------------------
(* EpisodeListModel rows *)

\* a row as Gtk.ListStore.append() leaves it: None, False
EmptyRow ==
    [url |-> <<>>, title |-> <<>>, episode |-> 0, status_icon |-> "None",
     view_show_undeleted |-> FALSE, view_show_downloaded |-> FALSE,
     view_show_unplayed |-> FALSE, description |-> <<>>, tooltip |-> "None"]

\* _format_description: (bold, title, what follows the title)
FormatDescription(a, e, include_description, all_view) ==
    <<a.state # "deleted" /\ a.is_new,
      Title(e),
      IF include_description
      THEN (IF all_view THEN "from channel" ELSE "one line description")
      ELSE "">>

\* faulty variant of GetUpdateFields: the undeleted flag follows the stored
\* state of an episode that is being downloaded
GetUpdateFieldsStoredState(a, e, include_description, all_view) ==
    LET deleted == ~a.downloading /\ a.state = "deleted"
        fresh == ~a.downloading /\ a.state = "normal" /\ a.is_new
        downloaded == ~a.downloading /\ ~deleted /\ ~fresh /\ a.state = "downloaded"
    IN  [status_icon |->
             IF a.downloading THEN "gpodder-progress"
             ELSE IF deleted THEN "ICON_DELETED"
             ELSE IF downloaded THEN "ICON_AUDIO_FILE"
             ELSE "None",
         view_show_undeleted |-> a.state # "deleted",
         view_show_downloaded |-> a.downloading \/ fresh \/ downloaded,
         view_show_unplayed |-> a.downloading \/ fresh \/ (downloaded /\ a.is_new),
         description |-> FormatDescription(a, e, include_description, all_view),
         tooltip |->
             IF a.downloading THEN "Downloading"
             ELSE IF deleted THEN "Deleted"
             ELSE IF fresh THEN "New episode"
             ELSE IF downloaded
                  THEN (IF a.is_new THEN "Downloaded episode, never played"
                        ELSE "Downloaded episode, played")
             ELSE ""]

\* faulty variant of GetUpdateFields: a deleted episode that is new counts as unplayed
GetUpdateFieldsDeletedUnplayed(a, e, include_description, all_view) ==
    LET deleted == ~a.downloading /\ a.state = "deleted"
        fresh == ~a.downloading /\ a.state = "normal" /\ a.is_new
        downloaded == ~a.downloading /\ ~deleted /\ ~fresh /\ a.state = "downloaded"
    IN  [status_icon |->
             IF a.downloading THEN "gpodder-progress"
             ELSE IF deleted THEN "ICON_DELETED"
             ELSE IF downloaded THEN "ICON_AUDIO_FILE"
             ELSE "None",
         view_show_undeleted |-> ~deleted,
         view_show_downloaded |-> a.downloading \/ fresh \/ downloaded,
         view_show_unplayed |-> a.downloading \/ fresh \/ ((downloaded \/ deleted) /\ a.is_new),
         description |-> FormatDescription(a, e, include_description, all_view),
         tooltip |->
             IF a.downloading THEN "Downloading"
             ELSE IF deleted THEN "Deleted"
             ELSE IF fresh THEN "New episode"
             ELSE IF downloaded
                  THEN (IF a.is_new THEN "Downloaded episode, never played"
                        ELSE "Downloaded episode, played")
             ELSE ""]

\* get_update_fields; every downloaded file is taken to be an audio file
\* that exists, and the download progress and the play time are left out
GetUpdateFields(a, e, include_description, all_view) ==
    LET deleted == ~a.downloading /\ a.state = "deleted"
        fresh == ~a.downloading /\ a.state = "normal" /\ a.is_new
        downloaded == ~a.downloading /\ ~deleted /\ ~fresh /\ a.state = "downloaded"
    IN  [status_icon |->
             IF a.downloading THEN "gpodder-progress"
             ELSE IF deleted THEN "ICON_DELETED"
             ELSE IF downloaded THEN "ICON_AUDIO_FILE"
             ELSE "None",
         view_show_undeleted |-> ~deleted,
         view_show_downloaded |-> a.downloading \/ fresh \/ downloaded,
         view_show_unplayed |-> a.downloading \/ fresh \/ (downloaded /\ a.is_new),
         description |-> FormatDescription(a, e, include_description, all_view),
         tooltip |->
             IF a.downloading THEN "Downloading"
             ELSE IF deleted THEN "Deleted"
             ELSE IF fresh THEN "New episode"
             ELSE IF downloaded
                  THEN (IF a.is_new THEN "Downloaded episode, never played"
                        ELSE "Downloaded episode, played")
             ELSE ""]

\* model.set(iter, *fields): the named columns of row r are overwritten
SetFields(r, fields) ==
    [f \in DOMAIN r |-> IF f \in DOMAIN fields THEN fields[f] ELSE r[f]]

\* the base_fields of BackgroundUpdate.update
BaseFields(e) == [url |-> Url(e), title |-> <<Title(e)>>, episode |-> e]

-----------------------------------------------------------------------------
(* BackgroundUpdate *)

\* faulty variant of NewBackgroundUpdate: the position starts at 1
NewBackgroundUpdateAtOne(episodes, include_description) ==
    [episodes |-> episodes, include_description |-> include_description, index |-> 1]

\* BackgroundUpdate.__init__
NewBackgroundUpdate(episodes, include_description) ==
    [episodes |-> episodes, include_description |-> include_description, index |-> 0]

\* The while loop of BackgroundUpdate.update, iteration by iteration.  Every
\* entity costs `cost` microseconds, so after j iterations time.time() - started
\* is j * cost.

\* get_update_fields raises: the icon lookup of a downloaded episode asks Gio
\* for the file info (file.query_info), which raises for a file it cannot read
GetUpdateFieldsRaises(a) ==
    ~a.downloading /\ a.state = "downloaded" /\ a.unreadable

\* iteration j cannot write its row: episode.url of None, an exception in
\* get_update_fields, or get_iter of a position that is not a row of the store
IterationRaises(episodes, index, rws, ent, j) ==
    \/ episodes[j] = 0
    \/ GetUpdateFieldsRaises(Attr(ent, episodes[j]))
    \/ index + j > Len(rws)

\* faulty variant of IterationEnds: the limit compared with >= instead of >
IterationEndsAtLimit(episodes, index, rws, cost, ent, j) ==
    \/ IterationRaises(episodes, index, rws, ent, j)
    \/ ((index + j) % BATCH = 0 /\ j * cost >= TIME_LIMIT)
    \/ j = Len(episodes)

\* iteration j is the last one: it raises, the break is taken after it, or the
\* queue is empty after it
IterationEnds(episodes, index, rws, cost, ent, j) ==
    \/ IterationRaises(episodes, index, rws, ent, j)
    \/ ((index + j) % BATCH = 0 /\ j * cost > TIME_LIMIT)
    \/ j = Len(episodes)

\* faulty variant of Iterations: the time check made before the first entity
\* with the time one entity takes, so that a call can end with none processed
IterationsCheckFirst(episodes, index, rws, cost, ent) ==
    IF episodes = <<>> \/ (index % BATCH = 0 /\ cost > TIME_LIMIT) THEN 0
    ELSE LET ends == {j \in 1..Len(episodes) :
                          IterationEnds(episodes, index, rws, cost, ent, j)}
         IN  CHOOSE j \in ends : \A k \in ends : j <= k

\* the number of iterations of one call
Iterations(episodes, index, rws, cost, ent) ==
    IF episodes = <<>> THEN 0
    ELSE LET ends == {j \in 1..Len(episodes) :
                          IterationEnds(episodes, index, rws, cost, ent, j)}
         IN  CHOOSE j \in ends : \A k \in ends : j <= k

\* model.set(model.get_iter((position,)), base_fields, update_fields)
WriteRow(row, episode, ent, flags) ==
    SetFields(SetFields(row, BaseFields(episode)),
              GetUpdateFields(Attr(ent, episode), episode,
                              flags.include_description, flags.all_view))

\* faulty variant of WriteRows: the entities of one call written in reverse
WriteRowsReversed(rws, episodes, index, written, ent, flags) ==
    [i \in 1..Len(rws) |->
        IF i > index /\ i <= index + written
        THEN WriteRow(rws[i], episodes[written + 1 - (i - index)], ent, flags)
        ELSE rws[i]]

\* the rows after `written` iterations from position `index`
WriteRows(rws, episodes, index, written, ent, flags) ==
    [i \in 1..Len(rws) |->
        IF i > index /\ i <= index + written
        THEN WriteRow(rws[i], episodes[i - index], ent, flags)
        ELSE rws[i]]

\* the state one call of update leaves: every iteration pops its episode, and
\* every iteration that does not raise writes row self.index and advances it
UpdateLoop(episodes, index, rws, cost, ent, flags) ==
    CHOOSE r \in
        {LET fails == n > 0 /\ IterationRaises(episodes, index, rws, ent, n)
             written == IF fails THEN n - 1 ELSE n
         IN  [episodes |-> SubSeq(episodes, n + 1, Len(episodes)),
              index |-> index + written,
              rows |-> WriteRows(rws, episodes, index, written, ent, flags),
              elapsed |-> n * cost,
              raised |-> fails] :
         n \in {Iterations(episodes, index, rws, cost, ent)}} : TRUE

-----------------------------------------------------------------------------
(* The view projection of the episode list *)

\* query.UserEQL(term).match(episode): "True", "False" or "raise".  A term is
\* looked for in the title without regard to case; the query "(" does not
\* parse and raises when it is evaluated.
EQLMatch(term, e) ==
    IF term = <<40>> THEN "raise"
    ELSE IF Contains(Lower(Title(e)), Lower(term)) THEN "True"
    ELSE "False"

\* faulty variant of EpisodeVisible: a match that raises hides the row
EpisodeVisibleFailClosed(term, mode, row) ==
    IF term # <<>>
    THEN IF row.episode = 0 THEN FALSE
         ELSE EQLMatch(term[1], row.episode) = "True"
    ELSE IF mode = VIEW_ALL THEN TRUE
    ELSE IF mode = VIEW_UNDELETED THEN row.view_show_undeleted
    ELSE IF mode = VIEW_DOWNLOADED THEN row.view_show_downloaded
    ELSE IF mode = VIEW_UNPLAYED THEN row.view_show_unplayed
    ELSE TRUE

\* faulty variant of EpisodeVisible: VIEW_DOWNLOADED reads the unplayed flag
EpisodeVisibleSwapped(term, mode, row) ==
    IF term # <<>>
    THEN IF row.episode = 0 THEN FALSE
         ELSE EQLMatch(term[1], row.episode) # "False"
    ELSE IF mode = VIEW_ALL THEN TRUE
    ELSE IF mode = VIEW_UNDELETED THEN row.view_show_undeleted
    ELSE IF mode = VIEW_DOWNLOADED THEN row.view_show_unplayed
    ELSE IF mode = VIEW_UNPLAYED THEN row.view_show_unplayed
    ELSE TRUE

\* EpisodeListModel._filter_visible_func
EpisodeVisible(term, mode, row) ==
    IF term # <<>>
    THEN IF row.episode = 0 THEN FALSE
         ELSE EQLMatch(term[1], row.episode) # "False"
    ELSE IF mode = VIEW_ALL THEN TRUE
    ELSE IF mode = VIEW_UNDELETED THEN row.view_show_undeleted
    ELSE IF mode = VIEW_DOWNLOADED THEN row.view_show_downloaded
    ELSE IF mode = VIEW_UNPLAYED THEN row.view_show_unplayed
    ELSE TRUE

\* self._filter.refilter(): the visible function is asked about every row
Refilter(term, mode, rws) ==
    [i \in 1..Len(rws) |-> EpisodeVisible(term, mode, rws[i])]

\* The filter model after the rows in `changed` were inserted or set: it asks
\* the visible function about each of them and keeps what it knew of the rest.
RowsChanged(shown, changed, term, mode, rws) ==
    [i \in 1..Len(rws) |->
        IF i \in changed THEN EpisodeVisible(term, mode, rws[i]) ELSE shown[i]]

\* faulty variant of HasEpisodes: the rows of the store are counted
HasEpisodesOfStore(shown) == Len(shown) > 0

\* has_episodes: bool(len(self._filter))
HasEpisodes(shown) == \E i \in 1..Len(shown) : shown[i]

-----------------------------------------------------------------------------
(* History records *)

NoSlice ==
    [ran |-> FALSE, tag |-> 0, held |-> 0, start_index |-> 0, start_len |-> 0,
     cost |-> 0, processed |-> 0, more |-> FALSE, remaining |-> 0,
     rearmed |-> FALSE, again |-> FALSE]

NoMerge == [in_progress |-> FALSE, old_index |-> 0, old_queue |-> <<>>]

\* the operation, whether it called self._filter.refilter(), the urls of
\* update_by_urls and the row of update_by_iter
EpisodeOp(op, refilter, urls) ==
    [op |-> op, refilter |-> refilter, urls |-> urls, row |-> 0]

NoEpisodeOp == EpisodeOp("none", FALSE, {})

-----------------------------------------------------------------------------
(* EpisodeListModel operations *)

\* GObject.idle_add: the new source gets an id no registered source has
IdleAdd(sources) == CHOOSE t \in 1..(Cardinality(sources) + 1) : t \notin sources

\* faulty variant of UpdateFromEpisodes: the armed source is not removed
UpdateFromEpisodesNoRemove(sources, tag, episodes, include_description) ==
    LET new_tag == IdleAdd(sources)
    IN  [sources |-> sources \cup {new_tag},
         update |-> <<NewBackgroundUpdate(episodes, include_description)>>,
         tag |-> new_tag]

\* _update_from_episodes: (sources, updater, tag) after the call
UpdateFromEpisodes(sources, tag, episodes, include_description) ==
    LET removed == IF tag # 0 THEN sources \ {tag} ELSE sources
        new_tag == IdleAdd(removed)
    IN  [sources |-> removed \cup {new_tag},
         update |-> <<NewBackgroundUpdate(episodes, include_description)>>,
         tag |-> new_tag]

\* faulty variant of UpdateAllEpisodes: the rows already written are left out
UpdateAllEpisodesPendingOnly(rws, update) ==
    IF update = <<>>
    THEN [i \in 1..Len(rws) |-> rws[i].episode]
    ELSE update[1].episodes

\* faulty variant of UpdateAllEpisodes: the rows of a populated store walked backwards
UpdateAllEpisodesReversed(rws, update) ==
    IF update = <<>>
    THEN [i \in 1..Len(rws) |-> rws[Len(rws) + 1 - i].episode]
    ELSE [i \in 1..update[1].index |-> rws[i].episode] \o update[1].episodes

\* the episodes list that update_all builds
UpdateAllEpisodes(rws, update) ==
    IF update = <<>>
    THEN [i \in 1..Len(rws) |-> rws[i].episode]
    ELSE [i \in 1..update[1].index |-> rws[i].episode] \o update[1].episodes

\* faulty variant of ClearAndAppend: the old rows are not cleared
AppendOnly(rws, n) == rws \o [i \in 1..n |-> EmptyRow]

\* faulty variant of MoreRemains: "more" once anything has been processed
MoreRemainsIfProcessed(r) == r.index > 0

\* faulty variant of MoreRemains: update always asks to be called again
MoreRemainsAlways(r) == TRUE

\* faulty variant of ClearAndAppend: an appended row has its undeleted flag set
ClearAndAppendUndeleted(rws, n) ==
    [i \in 1..n |-> [EmptyRow EXCEPT !.view_show_undeleted = TRUE]]

\* "self.clear()", then "for _ in range(len(episodes)): self.append()"
ClearAndAppend(rws, n) ==
    LET cleared == <<>>
    IN  cleared \o [i \in 1..n |-> EmptyRow]

\* "return bool(self.episodes)" of BackgroundUpdate.update
MoreRemains(r) == r.episodes # <<>>

\* replace_from_channel(channel, include_description)
ReplaceFromChannel(ch, include_description) ==
    LET episodes == IF ch.isNone THEN <<>> ELSE ch.episodes
        appended == ClearAndAppend(rows, Len(episodes))
        u == UpdateFromEpisodes(idle_sources, background_update_tag,
                                episodes, include_description)
    IN  /\ rows' = appended
        /\ visible' = Refilter(search_term, view_mode, appended)
        /\ all_episodes_view' = ch.proxy
        /\ idle_sources' = u.sources
        /\ background_update' = u.update
        /\ background_update_tag' = u.tag
        /\ channel' = ch
        /\ episode_op' = EpisodeOp("replace_from_channel", FALSE, {})
        /\ slice' = NoSlice
        /\ merge' = NoMerge
        /\ filter_changed' = <<>>
        /\ base' = <<>>
        /\ disturbed' = FALSE
        /\ UNCHANGED <<view_mode, search_term, entity, raised, pvars, focus>>

\* update_all(include_description)
UpdateAll(include_description) ==
    LET episodes == UpdateAllEpisodes(rows, background_update)
        u == UpdateFromEpisodes(idle_sources, background_update_tag,
                                episodes, include_description)
    IN  /\ idle_sources' = u.sources
        /\ background_update' = u.update
        /\ background_update_tag' = u.tag
        /\ slice' = NoSlice
        /\ merge' = IF background_update = <<>> THEN NoMerge
                    ELSE [in_progress |-> TRUE,
                          old_index |-> background_update[1].index,
                          old_queue |-> background_update[1].episodes]
        /\ filter_changed' = <<>>
        /\ disturbed' = FALSE
        /\ episode_op' = EpisodeOp("update_all", FALSE, {})
        /\ UNCHANGED <<rows, all_episodes_view, view_mode, search_term, entity,
                       visible, raised, channel, base, pvars, focus>>

\* The main loop runs the idle source `tag`: _update_background, with
\* BackgroundUpdate.update inside it.  A source whose callback returns False
\* (or raises) is removed.
UpdateBackground(tag, cost) ==
    /\ tag \in idle_sources
    /\ merge' = NoMerge
    /\ episode_op' = EpisodeOp("update_background", FALSE, {})
    /\ UNCHANGED <<all_episodes_view, view_mode, search_term, entity, channel,
                   disturbed, pvars, focus>>
    /\ IF background_update = <<>>
       THEN /\ idle_sources' = idle_sources \ {tag}
            /\ slice' = NoSlice
            /\ filter_changed' = <<>>
            /\ UNCHANGED <<rows, visible, background_update, background_update_tag,
                           raised, base>>
       ELSE \E r \in {UpdateLoop(background_update[1].episodes,
                                   background_update[1].index, rows, cost, entity,
                                   [include_description |->
                                        background_update[1].include_description,
                                    all_view |-> all_episodes_view])} :
            LET bu == background_update[1]
                more == MoreRemains(r)
                shown == RowsChanged(visible, (bu.index + 1)..r.index,
                                     search_term, view_mode, r.rows)
                ran == [ran |-> TRUE, tag |-> tag, held |-> background_update_tag,
                        start_index |-> bu.index,
                        start_len |-> Len(bu.episodes), cost |-> cost,
                        processed |-> r.index - bu.index, more |-> more,
                        remaining |-> Len(r.episodes), rearmed |-> more,
                        again |-> FALSE]
            IN  /\ rows' = r.rows
                /\ visible' = shown
                /\ IF r.raised
                   THEN /\ raised' = TRUE
                        /\ background_update' =
                               <<[bu EXCEPT !.episodes = r.episodes, !.index = r.index]>>
                        /\ idle_sources' = idle_sources \ {tag}
                        /\ slice' = [ran EXCEPT !.rearmed = FALSE]
                        /\ filter_changed' = <<>>
                        /\ UNCHANGED <<background_update_tag, base>>
                   ELSE IF more
                   THEN /\ background_update' =
                               <<[bu EXCEPT !.episodes = r.episodes, !.index = r.index]>>
                        /\ slice' = ran
                        /\ filter_changed' = <<>>
                        /\ UNCHANGED <<background_update_tag, idle_sources, raised, base>>
                   ELSE /\ background_update' = <<>>
                        /\ background_update_tag' = 0
                        /\ idle_sources' = idle_sources \ {tag}
                        /\ filter_changed' = <<HasEpisodes(shown)>>
                        /\ slice' = [ran EXCEPT !.again =
                                        /\ base # <<>>
                                        /\ base[1].include_description =
                                               bu.include_description]
                        /\ base' = IF disturbed THEN <<>>
                                   ELSE <<[rows |-> r.rows,
                                           include_description |-> bu.include_description]>>
                        /\ UNCHANGED raised

\* faulty variant of SetViewMode: the rows are emptied before the refilter
SetViewModeRewriting(new_mode) ==
    /\ view_mode' = new_mode
    /\ episode_op' = EpisodeOp("set_view_mode", view_mode # new_mode, {})
    /\ rows' = [i \in 1..Len(rows) |-> EmptyRow]
    /\ visible' = Refilter(search_term, new_mode, rows')
    /\ filter_changed' = IF view_mode # new_mode
                         THEN <<HasEpisodes(Refilter(search_term, new_mode, rows'))>>
                         ELSE <<>>
    /\ slice' = NoSlice
    /\ merge' = NoMerge
    /\ UNCHANGED <<background_update, background_update_tag, idle_sources,
                   search_term, all_episodes_view, entity, raised, channel,
                   base, disturbed, pvars, focus>>

\* EpisodeListModel.set_view_mode(new_mode)
SetViewMode(new_mode) ==
    /\ view_mode' = new_mode
    /\ episode_op' = EpisodeOp("set_view_mode", view_mode # new_mode, {})
    /\ visible' = IF view_mode # new_mode
                  THEN Refilter(search_term, new_mode, rows)
                  ELSE visible
    /\ filter_changed' = IF view_mode # new_mode
                         THEN <<HasEpisodes(Refilter(search_term, new_mode, rows))>>
                         ELSE <<>>
    /\ slice' = NoSlice
    /\ merge' = NoMerge
    /\ UNCHANGED <<rows, background_update, background_update_tag, idle_sources,
                   search_term, all_episodes_view, entity, raised, channel,
                   base, disturbed, pvars, focus>>

\* faulty variant of SetSearchTerm: the guard on the current term is missing
SetSearchTermUnguarded(new_term) ==
    /\ search_term' = new_term
    /\ episode_op' = EpisodeOp("set_search_term", TRUE, {})
    /\ visible' = Refilter(new_term, view_mode, rows)
    /\ filter_changed' = <<HasEpisodes(Refilter(new_term, view_mode, rows))>>
    /\ slice' = NoSlice
    /\ merge' = NoMerge
    /\ UNCHANGED <<rows, background_update, background_update_tag, idle_sources,
                   view_mode, all_episodes_view, entity, raised, channel,
                   base, disturbed, pvars, focus>>

\* EpisodeListModel.set_search_term(new_term); _search_term_eql is
\* UserEQL(_search_term) whenever a term is set
SetSearchTerm(new_term) ==
    /\ search_term' = new_term
    /\ episode_op' = EpisodeOp("set_search_term", search_term # new_term, {})
    /\ visible' = IF search_term # new_term
                  THEN Refilter(new_term, view_mode, rows)
                  ELSE visible
    /\ filter_changed' = IF search_term # new_term
                         THEN <<HasEpisodes(Refilter(new_term, view_mode, rows))>>
                         ELSE <<>>
    /\ slice' = NoSlice
    /\ merge' = NoMerge
    /\ UNCHANGED <<rows, background_update, background_update_tag, idle_sources,
                   view_mode, all_episodes_view, entity, raised, channel,
                   base, disturbed, pvars, focus>>

\* faulty variant of EpisodeUpdateByIter: the row is set whatever it holds
EpisodeUpdateByIterUnchecked(rws, i, ent, flags) ==
    [rws EXCEPT ![i] =
        SetFields(rws[i],
                  GetUpdateFields(Attr(ent, rws[i].episode), rws[i].episode,
                                  flags.include_description, flags.all_view))]

\* EpisodeListModel.update_by_iter on row i: the rows after the call
EpisodeUpdateByIter(rws, i, ent, flags) ==
    IF rws[i].episode # 0
    THEN [rws EXCEPT ![i] =
             SetFields(rws[i],
                       GetUpdateFields(Attr(ent, rws[i].episode), rws[i].episode,
                                       flags.include_description, flags.all_view))]
    ELSE rws

\* update_by_iter on the rows `sel`, in row order from row i on, up to the
\* first one for which get_update_fields raises
RECURSIVE EpisodeUpdateSelected(_, _, _, _, _)
EpisodeUpdateSelected(rws, sel, i, ent, flags) ==
    IF i > Len(rws) THEN [rows |-> rws, raised |-> FALSE]
    ELSE IF i \notin sel THEN EpisodeUpdateSelected(rws, sel, i + 1, ent, flags)
    ELSE IF rws[i].episode # 0 /\ GetUpdateFieldsRaises(Attr(ent, rws[i].episode))
    THEN [rows |-> rws, raised |-> TRUE]
    ELSE EpisodeUpdateSelected(EpisodeUpdateByIter(rws, i, ent, flags), sel, i + 1,
                               ent, flags)

\* what update_by_iter and update_by_urls have in common; the filter model
\* asks the visible function about every row that is set
EpisodeUpdateRows(sel, op, include_description) ==
    /\ \E r \in {EpisodeUpdateSelected(rows, sel, 1, entity,
                                        [include_description |-> include_description,
                                         all_view |-> all_episodes_view])} :
           /\ rows' = r.rows
           /\ visible' = RowsChanged(visible, {i \in sel : rows[i].episode # 0},
                                     search_term, view_mode, r.rows)
           /\ raised' = (raised \/ r.raised)
    /\ episode_op' = op
    /\ slice' = NoSlice
    /\ merge' = NoMerge
    /\ filter_changed' = <<>>
    /\ base' = <<>>
    /\ UNCHANGED <<background_update, background_update_tag, idle_sources,
                   view_mode, search_term, all_episodes_view, entity, channel,
                   disturbed, pvars, focus>>

\* EpisodeListModel.update_by_iter(iter, include_description) on row i
EpisodeUpdateRow(i, include_description) ==
    /\ i \in 1..Len(rows)
    /\ EpisodeUpdateRows({i}, [EpisodeOp("update_by_iter", FALSE, {}) EXCEPT !.row = i],
                         include_description)

\* EpisodeListModel.update_by_urls(urls, include_description)
EpisodeUpdateByUrls(urls, include_description) ==
    EpisodeUpdateRows({i \in 1..Len(rows) : rows[i].url \in urls},
                      EpisodeOp("update_by_urls", FALSE, urls), include_description)

\* The entity provider changes an episode (download started or finished,
\* played, deleted); the store is not told.
ChangeEpisode(e, a) ==
    /\ entity[e] # a
    /\ entity' = [entity EXCEPT ![e] = a]
    /\ episode_op' = NoEpisodeOp
    /\ disturbed' = TRUE
    /\ base' = <<>>
    /\ slice' = NoSlice
    /\ merge' = NoMerge
    /\ filter_changed' = <<>>
    /\ UNCHANGED <<rows, background_update, background_update_tag, idle_sources,
                   view_mode, search_term, all_episodes_view, visible, raised,
                   channel, pvars, focus>>

-----------------------------------------------------------------------------
(* Podcasts: the entity provider of the podcast list *)

PodcastIds == {1, 2, 3}

\* get_statistics() = (total, deleted, new, downloaded, unplayed) of every
\* podcast when the program starts
InitialStatistics ==
    [id \in PodcastIds |->
        IF id = 1 THEN <<3, 1, 1, 1, 1>>
        ELSE IF id = 2 THEN <<0, 0, 0, 0, 0>>
        ELSE <<2, 2, 0, 0, 0>>]

\* the podcasts paused when the program starts
InitialPaused == {2}

\* GPodcast objects: url, title, description, section, group_by (the section,
\* or "Other" for a podcast without one), pause_subscription and
\* get_statistics()
Podcast(id) ==
    IF id = 1
    THEN [url |-> 1, title |-> <<65, 98>>, description |-> <<98>>, section |-> <<97>>,
          group_by |-> <<97>>, pause_subscription |-> id \in podcast_paused,
          statistics |-> podcast_stats[id]]
    ELSE IF id = 2
    THEN [url |-> 2, title |-> <<98, 38>>, description |-> <<>>, section |-> <<97>>,
          group_by |-> <<97>>, pause_subscription |-> id \in podcast_paused,
          statistics |-> podcast_stats[id]]
    ELSE [url |-> 3, title |-> <<97>>, description |-> <<65, 98>>, section |-> <<>>,
          group_by |-> <<79, 116, 104, 101, 114>>, pause_subscription |-> id \in podcast_paused,
          statistics |-> podcast_stats[id]]

\* the C_CHANNEL column: a GPodcast, the PodcastChannelProxy, or a marker class
PodcastRef(id) == [kind |-> "GPodcast", id |-> id]
ProxyRef == [kind |-> "PodcastChannelProxy", id |-> 0]
SectionMarker == [kind |-> "SectionMarker", id |-> 0]
SeparatorMarker == [kind |-> "SeparatorMarker", id |-> 0]

\* PodcastChannelProxy.get_statistics: the totals of the database
RECURSIVE SumStatistics(_)
SumStatistics(ids) ==
    IF ids = {} THEN <<0, 0, 0, 0, 0>>
    ELSE LET id == CHOOSE x \in ids : TRUE
             st == Podcast(id).statistics
             rest == SumStatistics(ids \ {id})
         IN  [k \in 1..5 |-> st[k] + rest[k]]

\* the attributes update_by_iter reads from a GPodcast or the proxy
ChannelOf(ref) ==
    IF ref.kind = "GPodcast" THEN Podcast(ref.id)
    ELSE [url |-> 0, title |-> <<65, 108, 108, 32, 101, 112, 105, 115, 111, 100, 101, 115>>, description |-> <<102, 114, 111, 109, 32, 97, 108, 108, 32, 112, 111, 100, 99, 97, 115, 116, 115>>,
          section |-> <<>>, group_by |-> <<>>, pause_subscription |-> FALSE,
          statistics |-> SumStatistics(PodcastIds)]

-----------------------------------------------------------------------------
(* PodcastListModel rows *)

\* html.escape
RECURSIVE HtmlEscape(_)
HtmlEscape(s) ==
    IF s = <<>> THEN <<>>
    ELSE (IF s[1] = 38 THEN <<38, 97, 109, 112, 59>>
          ELSE IF s[1] = 60 THEN <<38, 108, 116, 59>>
          ELSE IF s[1] = 62 THEN <<38, 103, 116, 59>>
          ELSE IF s[1] = 34 THEN <<38, 113, 117, 111, 116, 59>>
          ELSE IF s[1] = 39 THEN <<38, 35, 120, 50, 55, 59>>
          ELSE <<s[1]>>) \o HtmlEscape(Tail(s))

\* "markup.strip()" is empty
IsBlank(s) == \A i \in 1..Len(s) : s[i] \in {32, 10}

\* PodcastListModel._format_description; descriptions have one line
PodcastFormatDescription(ch, new) ==
    LET title_markup == HtmlEscape(ch.title)
        description_markup ==
            IF ~ch.pause_subscription
            THEN HtmlEscape(IF ch.description = <<>> THEN <<32>> ELSE ch.description)
            ELSE HtmlEscape(<<83, 117, 98, 115, 99, 114, 105, 112, 116, 105, 111, 110, 32, 112, 97, 117, 115, 101, 100>>)
        d == IF new # 0
             THEN <<60, 115, 112, 97, 110, 32, 119, 101, 105, 103, 104, 116, 61, 34, 98, 111, 108, 100, 34, 62>> \o title_markup \o <<60, 47, 115, 112, 97, 110, 62>>
             ELSE title_markup
    IN  IF ~IsBlank(description_markup)
        THEN d \o <<10>> \o <<60, 115, 109, 97, 108, 108, 62>> \o description_markup \o <<60, 47, 115, 109, 97, 108, 108, 62>>
        ELSE d

\* channel_to_row in set_channels; the cover and the pill images are left out
ChannelToRow(ref) ==
    [url |-> ChannelOf(ref).url, title |-> <<>>, description |-> <<>>, channel |-> ref,
     pill_visible |-> TRUE, view_show_undeleted |-> TRUE,
     view_show_downloaded |-> TRUE, view_show_unplayed |-> TRUE,
     has_episodes |-> TRUE, separator |-> FALSE, downloads |-> 0,
     cover_visible |-> TRUE, section |-> <<>>]

\* the separator item of set_channels
SeparatorRow ==
    [url |-> 0, title |-> <<>>, description |-> <<>>, channel |-> SeparatorMarker,
     pill_visible |-> TRUE, view_show_undeleted |-> TRUE,
     view_show_downloaded |-> TRUE, view_show_unplayed |-> TRUE,
     has_episodes |-> TRUE, separator |-> TRUE, downloads |-> 0,
     cover_visible |-> FALSE, section |-> <<>>]

\* the section header of set_channels
SectionRow(section) ==
    [url |-> -1, title |-> section, description |-> <<>>, channel |-> SectionMarker,
     pill_visible |-> TRUE, view_show_undeleted |-> TRUE,
     view_show_downloaded |-> TRUE, view_show_unplayed |-> TRUE,
     has_episodes |-> TRUE, separator |-> FALSE, downloads |-> 0,
     cover_visible |-> FALSE, section |-> section]

\* faulty variant of SectionStatistics: the podcasts of all sections are summed
RECURSIVE SectionStatisticsAllRows(_, _, _)
SectionStatisticsAllRows(prws, section, i) ==
    IF i > Len(prws) THEN <<0, 0, 0, 0, 0>>
    ELSE LET rest == SectionStatisticsAllRows(prws, section, i + 1)
             c == prws[i].channel
         IN  IF c.kind = "GPodcast"
             THEN [k \in 1..5 |-> Podcast(c.id).statistics[k] + rest[k]]
             ELSE rest

\* the statistics update_by_iter sums for a section header
RECURSIVE SectionStatistics(_, _, _)
SectionStatistics(prws, section, i) ==
    IF i > Len(prws) THEN <<0, 0, 0, 0, 0>>
    ELSE LET rest == SectionStatistics(prws, section, i + 1)
             c == prws[i].channel
         IN  IF c.kind = "GPodcast" /\ Podcast(c.id).section = section
             THEN [k \in 1..5 |-> Podcast(c.id).statistics[k] + rest[k]]
             ELSE rest

\* PodcastListModel.update_by_iter on row i: the rows after the call
PodcastUpdateByIter(prws, i) ==
    LET row == prws[i]
        c == row.channel
    IN  IF c = SectionMarker
        THEN LET section == row.title
                 st == SectionStatistics(prws, section, 1)
             IN  [prws EXCEPT ![i] =
                     [row EXCEPT
                         !.description = <<60, 115, 112, 97, 110, 32, 115, 105, 122, 101, 61, 34, 49, 54, 48, 48, 48, 34, 62, 32, 60, 47, 115, 112, 97, 110, 62, 60, 98, 62>>
                                         \o HtmlEscape(section) \o <<60, 47, 98, 62>>,
                         !.section = section,
                         !.view_show_undeleted = st[1] - st[2] > 0,
                         !.view_show_downloaded = st[4] + st[3] > 0,
                         !.view_show_unplayed = st[5] + st[3] > 0]]
        ELSE IF c.kind \notin {"GPodcast", "PodcastChannelProxy"}
        THEN prws
        ELSE LET ch == ChannelOf(c)
                 st == ch.statistics
             IN  [prws EXCEPT ![i] =
                     [row EXCEPT
                         !.title = ch.title,
                         !.description = PodcastFormatDescription(ch, st[3]),
                         !.section = ch.section,
                         !.pill_visible = (st[5] > 0 \/ st[4] > 0),
                         !.view_show_undeleted = st[1] - st[2] > 0,
                         !.view_show_downloaded = st[4] + st[3] > 0,
                         !.view_show_unplayed = st[5] + st[3] > 0,
                         !.has_episodes = st[1] > 0,
                         !.downloads = st[4]]]

-----------------------------------------------------------------------------
(* PodcastListModel.set_channels *)

\* tuple and str comparison of Python: a < b for sequences of numbers
SeqLess(a, b) ==
    \E k \in 1..(Len(a) + 1) :
        /\ \A j \in 1..(k - 1) : j <= Len(b) /\ a[j] = b[j]
        /\ k <= Len(b)
        /\ (k > Len(a) \/ a[k] < b[k])

\* model.Model.podcast_sort_key: the title without regard to case
PodcastSortKey(id) == Lower(Podcast(id).title)

\* key_func of set_channels on the pair (section, podcast): pair p sorts before q
PairLess(p, q) ==
    \/ SeqLess(p.section, q.section)
    \/ p.section = q.section /\ SeqLess(PodcastSortKey(p.id), PodcastSortKey(q.id))

\* convert: the pairs (channel.group_by, channel), or (None, channel)
Convert(channels, sections) ==
    [i \in 1..Len(channels) |->
        [section |-> IF sections THEN Podcast(channels[i]).group_by ELSE <<>>,
         id |-> channels[i]]]

\* sorted(pairs, key=key_func): a stable sort
Sorted(pairs) ==
    LET rank(i) == Cardinality({j \in 1..Len(pairs) :
                       \/ PairLess(pairs[j], pairs[i])
                       \/ (~PairLess(pairs[i], pairs[j]) /\ j < i)}) + 1
    IN  [r \in 1..Len(pairs) |-> pairs[CHOOSE i \in 1..Len(pairs) : rank(i) = r]]

\* faulty variant of AddChannels: a header is appended before every podcast
RECURSIVE AddChannelsHeaderEach(_, _, _, _)
AddChannelsHeaderEach(pairs, k, st, sections) ==
    IF k > Len(pairs) THEN st
    ELSE LET section == IF sections THEN <<pairs[k].section>> ELSE <<>>
             header == sections
             rows1 == IF header THEN Append(st.rows, SectionRow(section[1])) ELSE st.rows
             added1 == IF header THEN Append(st.added_sections, Len(rows1))
                       ELSE st.added_sections
             rows2 == Append(rows1, ChannelToRow(PodcastRef(pairs[k].id)))
             rows3 == PodcastUpdateByIter(rows2, Len(rows2))
         IN  AddChannelsHeaderEach(pairs, k + 1,
                         [rows |-> rows3, added_sections |-> added1,
                          old_section |-> IF header THEN section ELSE st.old_section],
                         sections)

\* The loop of set_channels over the sorted pairs from pair k on.  `st` is
\* (rows, added_sections, old_section); old_section is <<>> for None and
\* <<section>> otherwise.
RECURSIVE AddChannels(_, _, _, _)
AddChannels(pairs, k, st, sections) ==
    IF k > Len(pairs) THEN st
    ELSE LET section == IF sections THEN <<pairs[k].section>> ELSE <<>>
             header == st.old_section # section
             rows1 == IF header THEN Append(st.rows, SectionRow(section[1])) ELSE st.rows
             added1 == IF header THEN Append(st.added_sections, Len(rows1))
                       ELSE st.added_sections
             rows2 == Append(rows1, ChannelToRow(PodcastRef(pairs[k].id)))
             rows3 == PodcastUpdateByIter(rows2, Len(rows2))
         IN  AddChannels(pairs, k + 1,
                         [rows |-> rows3, added_sections |-> added1,
                          old_section |-> IF header THEN section ELSE st.old_section],
                         sections)

\* "for it in added_sections: self.update_by_iter(it)"
RECURSIVE UpdateAdded(_, _, _)
UpdateAdded(prws, added, k) ==
    IF k > Len(added) THEN prws
    ELSE UpdateAdded(PodcastUpdateByIter(prws, added[k]), added, k + 1)

\* the rows set_channels(db, config, channels) leaves in the store
SetChannelsRows(view_all, sections, channels) ==
    LET cleared == <<>>
        first == IF view_all /\ channels # <<>>
                 THEN PodcastUpdateByIter(Append(cleared, ChannelToRow(ProxyRef)), 1)
                      \o (IF ~sections THEN <<SeparatorRow>> ELSE <<>>)
                 ELSE cleared
        st == AddChannels(Sorted(Convert(channels, sections)), 1,
                          [rows |-> first, added_sections |-> <<>>, old_section |-> <<>>],
                          sections)
    IN  UpdateAdded(st.rows, st.added_sections, 1)

-----------------------------------------------------------------------------
(* The view projection of the podcast list *)

\* PodcastListModel.SEARCH_COLUMNS
SearchColumns(row) == <<row.title, row.description, row.section>>

\* faulty variant of PodcastVisible: a search hit is still filtered by the view mode
PodcastVisibleWithMode(term, mode, row) ==
    LET by_mode == IF row.separator THEN TRUE
                   ELSE IF mode = VIEW_ALL THEN row.has_episodes
                   ELSE IF mode = VIEW_UNDELETED THEN row.view_show_undeleted
                   ELSE IF mode = VIEW_DOWNLOADED THEN row.view_show_downloaded
                   ELSE IF mode = VIEW_UNPLAYED THEN row.view_show_unplayed
                   ELSE TRUE
    IN  IF term # <<>>
        THEN IF row.channel = SectionMarker THEN TRUE
             ELSE /\ \E c \in 1..3 :
                        Contains(Lower(SearchColumns(row)[c]), Lower(term[1]))
                  /\ by_mode
        ELSE by_mode

\* faulty variant of PodcastVisible: a search passes every marker row through
PodcastVisibleMarkers(term, mode, row) ==
    IF term # <<>>
    THEN IF row.channel \in {SectionMarker, SeparatorMarker} THEN TRUE
         ELSE \E c \in 1..3 : Contains(Lower(SearchColumns(row)[c]), Lower(term[1]))
    ELSE IF row.separator THEN TRUE
    ELSE IF mode = VIEW_ALL THEN row.has_episodes
    ELSE IF mode = VIEW_UNDELETED THEN row.view_show_undeleted
    ELSE IF mode = VIEW_DOWNLOADED THEN row.view_show_downloaded
    ELSE IF mode = VIEW_UNPLAYED THEN row.view_show_unplayed
    ELSE TRUE

\* PodcastListModel._filter_visible_func
PodcastVisible(term, mode, row) ==
    IF term # <<>>
    THEN IF row.channel = SectionMarker THEN TRUE
         ELSE \E c \in 1..3 : Contains(Lower(SearchColumns(row)[c]), Lower(term[1]))
    ELSE IF row.separator THEN TRUE
    ELSE IF mode = VIEW_ALL THEN row.has_episodes
    ELSE IF mode = VIEW_UNDELETED THEN row.view_show_undeleted
    ELSE IF mode = VIEW_DOWNLOADED THEN row.view_show_downloaded
    ELSE IF mode = VIEW_UNPLAYED THEN row.view_show_unplayed
    ELSE TRUE

-----------------------------------------------------------------------------
(* The thumbnail cache of the podcast list *)

\* the urls covers are cached under: '' of the PodcastChannelProxy (written 0)
\* and the url of every podcast
Urls == {0} \cup PodcastIds

\* the images the cover downloader and add_cover_by_channel hand in:
\* 1 is 100 x 50, 2 is 30 x 30, 3 is 50 x 100
SourceImages == {1, 2, 3}

Width(s) == IF s = 1 THEN 100 ELSE IF s = 2 THEN 30 ELSE 50

Height(s) == IF s = 1 THEN 50 ELSE IF s = 2 THEN 30 ELSE 100

\* the image the cover downloader has for every url when the program starts
InitialCovers == [u \in Urls |-> IF u = 2 THEN 2 ELSE 1]

\* "self._max_image_side = 40"
InitialImageSide == 40

\* A GdkPixbuf.Pixbuf.  `src` is the image it shows; `id` tells the instances
\* apart: 0 is the pixbuf that was handed in, n > 0 the n-th pixbuf that
\* scale_simple created; `side` is the limit it was scaled to; `overlay` says
\* that the pause emblem and the desaturation were applied to it.
SourcePixbuf(s) ==
    [src |-> s, id |-> 0, w |-> Width(s), h |-> Height(s), side |-> 0, overlay |-> FALSE]

\* the identity of a pixbuf instance
Ident(p) == <<p.src, p.id>>

\* pixbuf.scale_simple(width, height, BILINEAR): a new pixbuf
ScaleSimple(p, width, height, side, n) ==
    [src |-> p.src, id |-> n, w |-> width, h |-> height, side |-> side,
     overlay |-> p.overlay]

\* "self._cover_cache = {}"
NoCovers == [u \in {} |-> 0]

\* "self._cover_cache[url] = pixbuf"
PutCover(cache, url, p) ==
    [u \in DOMAIN cache \cup {url} |-> IF u = url THEN p ELSE cache[u]]

\* faulty variant of RemoveCover: the entry stays
RemoveCoverNot(cache, url) == cache

\* clear_cover_cache: "del self._cover_cache[podcast_url]" if it is there
RemoveCover(cache, url) == [u \in DOMAIN cache \ {url} |-> cache[u]]

\* faulty variant of ResizePixbufKeepRatio: the cache is not looked at
ResizePixbufKeepRatioNoLookup(cache, side, n, url, pixbuf) ==
    LET wide == pixbuf.w > side
        p1 == IF wide
              THEN ScaleSimple(pixbuf, (pixbuf.w * side) \div pixbuf.w,
                               (pixbuf.h * side) \div pixbuf.w, side, n + 1)
              ELSE pixbuf
        n1 == IF wide THEN n + 1 ELSE n
        high == p1.h > side
        p2 == IF high
              THEN ScaleSimple(p1, (p1.w * side) \div p1.h,
                               (p1.h * side) \div p1.h, side, n1 + 1)
              ELSE p1
        n2 == IF high THEN n1 + 1 ELSE n1
        changed == wide \/ high
    IN  [cache |-> IF changed THEN PutCover(cache, url, p2) ELSE cache,
         result |-> IF changed THEN <<p2>> ELSE <<>>,
         scaled |-> n2]

\* _resize_pixbuf_keep_ratio(url, pixbuf): the cache after the call, the
\* result (<<>> is None) and the number of pixbufs created so far.
\* int(width * (float(side) / width)) is taken to be exact.
ResizePixbufKeepRatio(cache, side, n, url, pixbuf) ==
    IF url \in DOMAIN cache
    THEN [cache |-> cache, result |-> <<cache[url]>>, scaled |-> n]
    ELSE LET wide == pixbuf.w > side
             p1 == IF wide
                   THEN ScaleSimple(pixbuf, (pixbuf.w * side) \div pixbuf.w,
                                    (pixbuf.h * side) \div pixbuf.w, side, n + 1)
                   ELSE pixbuf
             n1 == IF wide THEN n + 1 ELSE n
             high == p1.h > side
             p2 == IF high
                   THEN ScaleSimple(p1, (p1.w * side) \div p1.h,
                                    (p1.h * side) \div p1.h, side, n1 + 1)
                   ELSE p1
             n2 == IF high THEN n1 + 1 ELSE n1
             changed == wide \/ high
         IN  [cache |-> IF changed THEN PutCover(cache, url, p2) ELSE cache,
              result |-> IF changed THEN <<p2>> ELSE <<>>,
              scaled |-> n2]

\* _resize_pixbuf(url, pixbuf): "_resize_pixbuf_keep_ratio(url, pixbuf) or pixbuf"
ResizePixbuf(cache, side, n, url, pixbuf) ==
    IF pixbuf = <<>>
    THEN [cache |-> cache, result |-> <<>>, scaled |-> n]
    ELSE LET r == ResizePixbufKeepRatio(cache, side, n, url, pixbuf[1])
         IN  [r EXCEPT !.result = IF r.result # <<>> THEN r.result ELSE pixbuf]

\* _overlay_pixbuf(pixbuf, ICON_DISABLED) and pixbuf.saturate_and_pixelate(
\* pixbuf, 0.0, False): both write into the pixbuf they are given, so the
\* cache entry that is this very instance is changed with it
OverlayPixbuf(cache, p) ==
    [u \in DOMAIN cache |->
        IF Ident(cache[u]) = Ident(p) THEN [cache[u] EXCEPT !.overlay = TRUE]
        ELSE cache[u]]

\* history: what was returned for a url, and whether its podcast was paused
ThumbEntry(p, paused) ==
    [src |-> p.src, id |-> p.id, side |-> p.side, overlay |-> p.overlay,
     paused |-> paused]

\* history: the last two thumbnails returned for a url since it was invalidated
PushThumb(th, url, e) ==
    [th EXCEPT ![url] = IF @ = <<>> THEN <<e>> ELSE <<@[Len(@)], e>>]

\* history: an operation of the podcast list with its arguments
PodcastOp(op, url, src, urls) ==
    [op |-> op, url |-> url, src |-> src, urls |-> urls, refilter |-> FALSE,
     row |-> 0, view_all |-> FALSE, sections |-> FALSE, channels |-> <<>>]

NoPodcastOp == PodcastOp("none", 0, 0, {})

\* _get_cover_image(channel, add_overlay) on st = (cache, scaled, thumb).
\* _get_cached_thumb has no path that returns a pixbuf, so the cover always
\* comes from the cover downloader, which is taken to have one.
GetCoverImage(st, url, add_overlay) ==
    IF ~cover_downloader THEN st
    ELSE LET r == ResizePixbuf(st.cache, max_image_side, st.scaled, url,
                               <<SourcePixbuf(covers[url])>>)
             over == add_overlay /\ url \in podcast_paused
             image == [r.result[1] EXCEPT !.overlay = @ \/ over]
         IN  [cache |-> IF over THEN OverlayPixbuf(r.cache, r.result[1]) ELSE r.cache,
              scaled |-> r.scaled,
              thumb |-> PushThumb(st.thumb, url,
                                  ThumbEntry(image, url \in podcast_paused))]

\* the _get_cover_image calls of set_channels, one per channel_to_row
RECURSIVE CoverRequests(_, _, _)
CoverRequests(st, reqs, k) ==
    IF k > Len(reqs) THEN st
    ELSE CoverRequests(GetCoverImage(st, reqs[k].url, reqs[k].add_overlay), reqs, k + 1)

-----------------------------------------------------------------------------
(* PodcastListModel operations *)

\* what a podcast list operation leaves alone in the episode list
EpisodeListUnchanged ==
    /\ episode_op' = NoEpisodeOp
    /\ slice' = NoSlice
    /\ merge' = NoMerge
    /\ filter_changed' = <<>>
    /\ UNCHANGED <<rows, background_update, background_update_tag, idle_sources,
                   view_mode, search_term, all_episodes_view, entity, visible,
                   raised, channel, base, disturbed, focus>>

\* self._filter.refilter() of the podcast list
PodcastRefilter(term, mode, prws) ==
    [i \in 1..Len(prws) |-> PodcastVisible(term, mode, prws[i])]

\* PodcastListModel.set_channels(db, config, channels); the filter model asks
\* the visible function about every row that is appended or set
SetChannels(view_all, sections, channels) ==
    /\ \E prws \in {SetChannelsRows(view_all, sections, channels)} :
           /\ prows' = prws
           /\ pvisible' = PodcastRefilter(psearch_term, pview_mode, prws)
    /\ LET pairs == Sorted(Convert(channels, sections))
           reqs == (IF view_all /\ channels # <<>>
                    THEN <<[url |-> 0, add_overlay |-> FALSE]>> ELSE <<>>)
                   \o [k \in 1..Len(pairs) |-> [url |-> pairs[k].id, add_overlay |-> TRUE]]
       IN  \E st \in {CoverRequests([cache |-> cover_cache, scaled |-> scaled,
                                      thumb |-> thumb], reqs, 1)} :
               /\ st.scaled <= MaxPixbufs
               /\ cover_cache' = st.cache
               /\ scaled' = st.scaled
               /\ thumb' = st.thumb
    /\ podcast_op' = [PodcastOp("set_channels", 0, 0, {})
                          EXCEPT !.view_all = view_all, !.sections = sections,
                                 !.channels = channels]
    /\ UNCHANGED <<pview_mode, psearch_term, gvars, cover_downloader, max_image_side, covers>>
    /\ EpisodeListUnchanged

\* PodcastListModel.set_view_mode(new_mode)
PodcastSetViewMode(new_mode) ==
    /\ pview_mode' = new_mode
    /\ pvisible' = IF pview_mode # new_mode
                   THEN PodcastRefilter(psearch_term, new_mode, prows)
                   ELSE pvisible
    /\ podcast_op' = [PodcastOp("set_view_mode", 0, 0, {})
                          EXCEPT !.refilter = pview_mode # new_mode]
    /\ UNCHANGED <<prows, psearch_term, gvars, cover_downloader, cover_cache,
                   max_image_side, covers, scaled, thumb>>
    /\ EpisodeListUnchanged

\* PodcastListModel.set_search_term(new_term)
PodcastSetSearchTerm(new_term) ==
    /\ psearch_term' = new_term
    /\ pvisible' = IF psearch_term # new_term
                   THEN PodcastRefilter(new_term, pview_mode, prows)
                   ELSE pvisible
    /\ podcast_op' = [PodcastOp("set_search_term", 0, 0, {})
                          EXCEPT !.refilter = psearch_term # new_term]
    /\ UNCHANGED <<prows, pview_mode, gvars, cover_downloader, cover_cache,
                   max_image_side, covers, scaled, thumb>>
    /\ EpisodeListUnchanged

\* update_by_iter on the rows `sel` of the store, in row order from row i on
RECURSIVE UpdateSelected(_, _, _)
UpdateSelected(prws, sel, i) ==
    IF i > Len(prws) THEN prws
    ELSE UpdateSelected(IF i \in sel THEN PodcastUpdateByIter(prws, i) ELSE prws,
                        sel, i + 1)

\* what update_by_urls, update_all and update_sections have in common
UpdatePodcastRows(sel, op) ==
    /\ \E prws \in {UpdateSelected(prows, sel, 1)} :
           /\ prows' = prws
           /\ pvisible' = PodcastRefilter(psearch_term, pview_mode, prws)
    /\ podcast_op' = op
    /\ UNCHANGED <<pview_mode, psearch_term, gvars, cover_downloader, cover_cache,
                   max_image_side, covers, scaled, thumb>>
    /\ EpisodeListUnchanged

\* PodcastListModel.update_by_iter(iter) on row i
PodcastUpdateRow(i) ==
    /\ i \in 1..Len(prows)
    /\ UpdatePodcastRows({i}, [PodcastOp("update_by_iter", 0, 0, {}) EXCEPT !.row = i])

\* PodcastListModel.update_by_urls(urls)
PodcastUpdateByUrls(urls) ==
    UpdatePodcastRows({i \in 1..Len(prows) : prows[i].url \in urls},
                      PodcastOp("update_by_urls", 0, 0, urls))

\* PodcastListModel.update_all()
PodcastUpdateAll ==
    UpdatePodcastRows(1..Len(prows), PodcastOp("update_all", 0, 0, {}))

\* PodcastListModel.update_sections()
PodcastUpdateSections ==
    UpdatePodcastRows({i \in 1..Len(prows) : prows[i].channel = SectionMarker},
                      PodcastOp("update_sections", 0, 0, {}))

\* The entity provider changes the statistics of a podcast (an episode was
\* downloaded, played or deleted); the store is not told.
ChangeStatistics(id, st) ==
    /\ podcast_stats[id] # st
    /\ podcast_stats' = [podcast_stats EXCEPT ![id] = st]
    /\ podcast_op' = PodcastOp("none", 0, 0, {})
    /\ UNCHANGED <<prows, pview_mode, psearch_term, pvisible, podcast_paused, cover_downloader,
                   cover_cache, max_image_side, covers, scaled, thumb>>
    /\ EpisodeListUnchanged

\* The user pauses or resumes a podcast; the store is not told.
SetPaused(id, paused) ==
    /\ (id \in podcast_paused) # paused
    /\ podcast_paused' = IF paused THEN podcast_paused \cup {id} ELSE podcast_paused \ {id}
    /\ podcast_op' = PodcastOp("none", 0, 0, {})
    /\ UNCHANGED <<prows, pview_mode, psearch_term, pvisible, podcast_stats, cover_downloader,
                   cover_cache, max_image_side, covers, scaled, thumb>>
    /\ EpisodeListUnchanged

\* The cover downloader gets another image for a url; the store is not told.
ChangeCover(url, s) ==
    /\ covers[url] # s
    /\ covers' = [covers EXCEPT ![url] = s]
    /\ podcast_op' = PodcastOp("none", 0, 0, {})
    /\ UNCHANGED <<prows, pview_mode, psearch_term, pvisible, gvars, cover_downloader,
                   cover_cache, max_image_side, scaled, thumb>>
    /\ EpisodeListUnchanged

\* PodcastListModel.clear_cover_cache(podcast_url)
ClearCoverCache(url) ==
    /\ cover_cache' = RemoveCover(cover_cache, url)
    /\ thumb' = [thumb EXCEPT ![url] = <<>>]
    /\ podcast_op' = PodcastOp("clear_cover_cache", url, 0, {})
    /\ UNCHANGED <<prows, pview_mode, psearch_term, pvisible, gvars, cover_downloader,
                   max_image_side, covers, scaled>>
    /\ EpisodeListUnchanged

\* PodcastListModel.add_cover_by_channel(channel, pixbuf) for the podcast with
\* this url; pixbuf is <<>> (None) or <<source image>>.  The C_COVER column it
\* writes is not part of the rows of this model.
AddCoverByChannel(url, pixbuf) ==
    /\ podcast_op' = PodcastOp("add_cover_by_channel", url,
                               IF pixbuf = <<>> THEN 0 ELSE pixbuf[1], {})
    /\ UNCHANGED <<prows, pview_mode, psearch_term, pvisible, gvars, cover_downloader,
                   max_image_side, covers>>
    /\ EpisodeListUnchanged
    /\ IF pixbuf = <<>>
       THEN UNCHANGED <<cover_cache, scaled, thumb>>
       ELSE \E r \in {ResizePixbuf(RemoveCover(cover_cache, url), max_image_side,
                                   scaled, url, <<SourcePixbuf(pixbuf[1])>>)} :
                LET over == url \in podcast_paused
                    image == [r.result[1] EXCEPT !.overlay = @ \/ over]
                IN  /\ r.scaled <= MaxPixbufs
                    /\ cover_cache' = IF over THEN OverlayPixbuf(r.cache, r.result[1])
                                      ELSE r.cache
                    /\ scaled' = r.scaled
                    /\ thumb' = [thumb EXCEPT ![url] = <<ThumbEntry(image, over)>>]

\* faulty variant of ClearedCovers: the cache survives
KeptCovers(cache) == cache

\* set_max_image_size: "self._cover_cache = {}"
ClearedCovers(cache) == NoCovers

\* PodcastListModel.set_max_image_size(size)
SetMaxImageSize(size) ==
    /\ max_image_side' = size
    /\ cover_cache' = ClearedCovers(cover_cache)
    /\ thumb' = [u \in Urls |-> <<>>]
    /\ podcast_op' = PodcastOp("set_max_image_size", 0, 0, {})
    /\ UNCHANGED <<prows, pview_mode, psearch_term, pvisible, gvars, cover_downloader,
                   covers, scaled>>
    /\ EpisodeListUnchanged

-----------------------------------------------------------------------------
(* The episode list with its updater *)

\* microseconds one entity takes: none, 0.4 ms, 25 ms
Costs == {0, 400, 25000}

\* the states the changing episodes take
ChangedAttrs ==
    {[state |-> "deleted", is_new |-> FALSE, downloading |-> FALSE,
      unreadable |-> FALSE],
     [state |-> "downloaded", is_new |-> TRUE, downloading |-> FALSE,
      unreadable |-> FALSE]}

\* EpisodeListModel.__init__ and PodcastListModel.__init__
Constructed ==
    /\ rows = <<>>
    /\ background_update = <<>>
    /\ background_update_tag = 0
    /\ idle_sources = {}
    /\ view_mode = VIEW_ALL
    /\ search_term = <<>>
    /\ all_episodes_view = FALSE
    /\ entity = [e \in MutableEpisodes |-> InitialAttr(e)]
    /\ visible = <<>>
    /\ raised = FALSE
    /\ channel = NoneChannel
    /\ slice = NoSlice
    /\ merge = NoMerge
    /\ filter_changed = <<>>
    /\ base = <<>>
    /\ disturbed = FALSE
    /\ episode_op = NoEpisodeOp
    /\ prows = <<>>
    /\ pview_mode = -1
    /\ psearch_term = <<>>
    /\ pvisible = <<>>
    /\ podcast_paused = InitialPaused
    /\ podcast_stats = InitialStatistics
    /\ cover_cache = NoCovers
    /\ max_image_side = InitialImageSide
    /\ covers = InitialCovers
    /\ scaled = 0
    /\ thumb = [u \in Urls |-> <<>>]
    /\ podcast_op = NoPodcastOp

Init ==
    /\ Constructed
    /\ cover_downloader = FALSE
    /\ focus = "episodes"

Next ==
    \/ \E ch \in Channels, d \in BOOLEAN : ReplaceFromChannel(ch, d)
    \/ \E d \in BOOLEAN : UpdateAll(d)
    \/ \E tag \in idle_sources, cost \in Costs : UpdateBackground(tag, cost)
    \/ \E e \in {EpId(2, 1)}, a \in ChangedAttrs : ChangeEpisode(e, a)

Spec == Init /\ [][Next]_vars

\* The main loop calls an idle source again and again for as long as it is
\* registered: GObject.idle_add keeps the source until its callback returns
\* False.
RunIdle == \E tag \in idle_sources, cost \in Costs : UpdateBackground(tag, cost)

LiveNext ==
    \/ \E ch \in {ShortChannel, LongChannel}, d \in BOOLEAN : ReplaceFromChannel(ch, d)
    \/ \E d \in BOOLEAN : UpdateAll(d)
    \/ RunIdle

LiveSpec == Init /\ [][LiveNext]_vars /\ WF_vars(RunIdle)

-----------------------------------------------------------------------------
(* The episode list when the file of a downloaded episode cannot be read *)

\* the states the changing episodes take: downloaded, with a file Gio can or
\* cannot query
FailAttrs ==
    {[state |-> "downloaded", is_new |-> FALSE, downloading |-> FALSE,
      unreadable |-> TRUE],
     [state |-> "downloaded", is_new |-> FALSE, downloading |-> FALSE,
      unreadable |-> FALSE]}

FailInit ==
    /\ Constructed
    /\ cover_downloader = FALSE
    /\ focus = "failures"

FailNext ==
    \/ \E ch \in {ShortChannel, LongChannel}, d \in BOOLEAN : ReplaceFromChannel(ch, d)
    \/ \E d \in BOOLEAN : UpdateAll(d)
    \/ \E tag \in idle_sources, cost \in {400, 25000} : UpdateBackground(tag, cost)
    \/ \E e \in {EpId(1, SmallLen), EpId(2, 1)}, a \in FailAttrs : ChangeEpisode(e, a)

FailSpec == FailInit /\ [][FailNext]_vars

-----------------------------------------------------------------------------
(* The two list models with their view projections, on short lists *)

\* the states the changing episode takes
ViewAttrs ==
    {[state |-> "deleted", is_new |-> FALSE, downloading |-> FALSE,
      unreadable |-> FALSE],
     [state |-> "deleted", is_new |-> TRUE, downloading |-> FALSE,
      unreadable |-> FALSE],
     [state |-> "downloaded", is_new |-> FALSE, downloading |-> FALSE,
      unreadable |-> FALSE],
     [state |-> "normal", is_new |-> FALSE, downloading |-> FALSE,
      unreadable |-> FALSE]}

\* None or a search term
OptionalTerms == {<<>>} \cup {<<t>> : t \in SearchTerms}

\* None, a search term or the empty string
PodcastTerms == OptionalTerms \cup {<< <<>> >>}

\* the statistics the changing podcast takes: no episodes, one new episode
ChangedStatistics == {<<0, 0, 0, 0, 0>>, <<1, 0, 1, 0, 0>>}

\* the podcast lists passed to set_channels
ChannelLists == {<<>>, <<1>>, <<2>>, <<2, 1>>, <<3, 1, 2>>}

ViewInit ==
    /\ Constructed
    /\ cover_downloader = FALSE
    /\ focus \in {"episodes", "podcasts"}

ViewNext ==
    \/ focus = "episodes" /\ \E ch \in SmallChannels, d \in BOOLEAN : ReplaceFromChannel(ch, d)
    \/ focus = "episodes" /\ \E d \in BOOLEAN : UpdateAll(d)
    \/ focus = "episodes" /\ \E tag \in idle_sources : UpdateBackground(tag, 400)
    \/ focus = "episodes" /\ \E m \in ViewModes : SetViewMode(m)
    \/ focus = "episodes" /\ \E t \in OptionalTerms \ {<<(<<97>>)>>} : SetSearchTerm(t)
    \/ focus = "episodes" /\ \E a \in ViewAttrs : ChangeEpisode(EpId(1, 1), a)
    \/ focus = "podcasts" /\ \E va \in BOOLEAN, se \in BOOLEAN, cl \in ChannelLists :
                                SetChannels(va, se, cl)
    \/ focus = "podcasts" /\ \E m \in ViewModes : PodcastSetViewMode(m)
    \/ focus = "podcasts" /\ \E t \in PodcastTerms : PodcastSetSearchTerm(t)

ViewSpec == ViewInit /\ [][ViewNext]_vars

-----------------------------------------------------------------------------
(* The podcast list in sections, with podcasts whose statistics change *)

SectionInit ==
    /\ Constructed
    /\ cover_downloader = FALSE
    /\ focus = "sections"

SectionNext ==
    \/ \E va \in BOOLEAN, cl \in {<<2>>, <<2, 1>>, <<3, 1, 2>>} : SetChannels(va, TRUE, cl)
    \/ \E urls \in {{2}, {0, 1}} : PodcastUpdateByUrls(urls)
    \/ PodcastUpdateAll
    \/ PodcastUpdateSections
    \/ \E id \in {1, 2}, st \in ChangedStatistics : ChangeStatistics(id, st)
    \/ \E m \in {VIEW_ALL, VIEW_UNDELETED} : PodcastSetViewMode(m)

SectionSpec == SectionInit /\ [][SectionNext]_vars

-----------------------------------------------------------------------------
(* Updates of single rows of the two list models *)

\* the urls update_by_urls is called with: of one episode, and of an episode
\* together with None
EpisodeUrlSets == {{Url(EpId(1, 1))}, {<<>>, Url(EpId(1, SmallLen))}}

UpdateInit ==
    /\ Constructed
    /\ cover_downloader = FALSE
    /\ focus \in {"episodes", "podcasts"}

UpdateNext ==
    \/ focus = "episodes" /\ \E ch \in {ShortChannel, ProxyChannel}, d \in BOOLEAN :
                                ReplaceFromChannel(ch, d)
    \/ focus = "episodes" /\ \E tag \in idle_sources : UpdateBackground(tag, 400)
    \/ focus = "episodes" /\ \E a \in ChangedAttrs : ChangeEpisode(EpId(1, 1), a)
    \/ focus = "episodes" /\ \E m \in {VIEW_ALL, VIEW_DOWNLOADED} : SetViewMode(m)
    \/ focus = "episodes" /\ \E i \in 1..Len(rows), d \in BOOLEAN : EpisodeUpdateRow(i, d)
    \/ focus = "episodes" /\ \E urls \in EpisodeUrlSets, d \in BOOLEAN :
                                EpisodeUpdateByUrls(urls, d)
    \/ focus = "podcasts" /\ \E va \in BOOLEAN, se \in BOOLEAN, cl \in {<<1>>, <<2, 1>>} :
                                SetChannels(va, se, cl)
    \/ focus = "podcasts" /\ \E st \in ChangedStatistics : ChangeStatistics(1, st)
    \/ focus = "podcasts" /\ \E i \in 1..Len(prows) : PodcastUpdateRow(i)
    \/ focus = "podcasts" /\ \E urls \in {{0}, {1}} : PodcastUpdateByUrls(urls)

UpdateSpec == UpdateInit /\ [][UpdateNext]_vars

-----------------------------------------------------------------------------
(* The podcast list with its thumbnail cache *)

\* the target sizes passed to set_max_image_size
ImageSides == {20, 40}

CoverInit ==
    /\ Constructed
    /\ cover_downloader = TRUE
    /\ focus = "covers"

CoverNext ==
    \/ \E va \in BOOLEAN : SetChannels(va, FALSE, <<1>>)
    \/ \E p \in {<<>>} \cup {<<s>> : s \in SourceImages} : AddCoverByChannel(1, p)
    \/ ClearCoverCache(1)
    \/ \E size \in ImageSides : SetMaxImageSize(size)
    \/ \E b \in BOOLEAN : SetPaused(1, b)
    \/ \E s \in {1, 2} : ChangeCover(1, s)

CoverSpec == CoverInit /\ [][CoverNext]_vars

-----------------------------------------------------------------------------
(* Properties of the incremental updater, under Spec *)

OneTaskArmed ==
    /\ Cardinality(idle_sources) <= 1
    /\ idle_sources = (IF background_update_tag = 0 THEN {} ELSE {background_update_tag})
    /\ (background_update # <<>>) <=> (background_update_tag # 0)
    /\ slice.ran => slice.tag = slice.held

\* an update was requested while a task was armed, and one task is armed after it
OneTaskArmedWitness ==
    /\ merge.in_progress
    /\ background_update_tag # 0
    /\ idle_sources = {background_update_tag}

RowCountIsEpisodeCount ==
    /\ Len(rows) = Len(channel.episodes)
    /\ channel.isNone => Len(rows) = 0

\* the long channel is in the store with slices still pending
RowCountWitness ==
    /\ Len(rows) = MaxEpisodes
    /\ background_update # <<>>
    /\ background_update[1].index = BATCH

\* C5 as stated: a slice that has processed at least 50 entities processes no
\* further entity once its elapsed time exceeds 20 ms.
SliceStopsWhenOverBudget ==
    slice.ran =>
        \A j \in 1..(slice.processed - 1) :
            ~(j >= BATCH /\ j * slice.cost > TIME_LIMIT)

\* C5, amended: the elapsed time is looked at only when the position is a
\* multiple of 50.  A slice never goes on past such a position with more than
\* 20 ms elapsed, and a slice that leaves work queued stopped at such a
\* position with more than 20 ms elapsed.
SliceStopsAtBatchOverBudget ==
    slice.ran =>
        /\ \A j \in 1..(slice.processed - 1) :
               ~((slice.start_index + j) % BATCH = 0 /\ j * slice.cost > TIME_LIMIT)
        /\ slice.more =>
               /\ (slice.start_index + slice.processed) % BATCH = 0
               /\ slice.processed * slice.cost > TIME_LIMIT
               /\ slice.processed >= BATCH

\* a slice went over its budget after 51 entities and stopped after 100
SliceOverBudgetWitness ==
    /\ slice.ran
    /\ slice.more
    /\ slice.processed = 2 * BATCH
    /\ (BATCH + 1) * slice.cost > TIME_LIMIT

\* C6: a slice on a non-empty queue processes at least one entity and at most
\* the whole queue, and leaves the queue shorter by what it processed.
SliceMakesProgress ==
    (slice.ran /\ slice.start_len > 0) =>
        /\ slice.processed >= 1
        /\ slice.processed <= slice.start_len
        /\ slice.remaining = slice.start_len - slice.processed

\* a slice whose first entity already took more than the budget
SliceMakesProgressWitness ==
    /\ slice.ran
    /\ slice.cost > TIME_LIMIT
    /\ slice.processed = BATCH
    /\ slice.start_len > BATCH

\* C7: a slice returns "more work remains" exactly when its queue is not empty
\* at its end, and the task stays armed exactly when it returned so.
SliceReportsRemaining ==
    slice.ran =>
        /\ slice.more <=> (slice.remaining > 0)
        /\ slice.rearmed <=> slice.more
        /\ slice.rearmed <=> (slice.tag \in idle_sources)
        /\ slice.more <=> (background_update # <<>>)

\* the last slice of a population that took several slices
SliceReportsRemainingWitness ==
    /\ slice.ran
    /\ ~slice.more
    /\ slice.start_index = 2 * BATCH
    /\ idle_sources = {}

-----------------------------------------------------------------------------
(* Properties of the view projections, under ViewSpec *)

\* the stored flag of an episode row for a view mode
EpisodeFlag(row, mode) ==
    IF mode = VIEW_UNDELETED THEN row.view_show_undeleted
    ELSE IF mode = VIEW_DOWNLOADED THEN row.view_show_downloaded
    ELSE IF mode = VIEW_UNPLAYED THEN row.view_show_unplayed
    ELSE TRUE

\* the stored flag of a podcast row for a view mode
PodcastFlag(row, mode) ==
    IF mode = VIEW_UNDELETED THEN row.view_show_undeleted
    ELSE IF mode = VIEW_DOWNLOADED THEN row.view_show_downloaded
    ELSE IF mode = VIEW_UNPLAYED THEN row.view_show_unplayed
    ELSE row.has_episodes

\* a podcast row with an entity behind it
RealPodcastRow(row) == row.channel.kind \in {"GPodcast", "PodcastChannelProxy"}

\* without a search term every row is shown as its flag for the view mode says
ShownByFlag ==
    /\ search_term = <<>> =>
           \A i \in 1..Len(rows) : visible[i] = EpisodeFlag(rows[i], view_mode)
    /\ (psearch_term = <<>> /\ pview_mode \in ViewModes) =>
           \A i \in 1..Len(prows) :
               RealPodcastRow(prows[i]) =>
                   pvisible[i] = PodcastFlag(prows[i], pview_mode)

\* C9: with no search term a real row is visible iff its stored flag for the
\* current view mode is true (in mode ALL: every episode row, and a podcast
\* row iff it has episodes); a switch of the view mode changes the visibility
\* of exactly the rows whose flags for the two modes differ.
VisibleByViewMode ==
    [][/\ ShownByFlag'
       /\ (search_term = <<>> /\ search_term' = <<>> /\ view_mode' # view_mode) =>
              \A i \in 1..Len(rows) :
                  (visible'[i] # visible[i]) <=>
                      (EpisodeFlag(rows[i], view_mode') # EpisodeFlag(rows[i], view_mode))
       /\ (/\ psearch_term = <<>> /\ psearch_term' = <<>>
           /\ pview_mode \in ViewModes /\ pview_mode' # pview_mode) =>
              \A i \in 1..Len(prows) :
                  RealPodcastRow(prows[i]) =>
                      ((pvisible'[i] # pvisible[i]) <=>
                          (PodcastFlag(prows[i], pview_mode')
                               # PodcastFlag(prows[i], pview_mode)))]_vars

\* set_view_mode(UNPLAYED) hid an episode row that DOWNLOADED shows and kept another
VisibleByViewModeWitness ==
    /\ search_term = <<>>
    /\ view_mode = VIEW_UNPLAYED
    /\ filter_changed = <<TRUE>>
    /\ \E i \in 1..Len(rows) : rows[i].view_show_downloaded /\ ~visible[i]

\* C10: while a search term is set, a real row is visible iff it matches the
\* search (the query for an episode, a substring of title, description or
\* section for a podcast), whatever the view mode and the row's flags; a term
\* that matches no real row leaves no real row visible in any view mode.
VisibleBySearchOnly ==
    /\ search_term # <<>> =>
           /\ \A i \in 1..Len(rows) :
                  /\ visible[i] = (/\ rows[i].episode # 0
                                   /\ EQLMatch(search_term[1], rows[i].episode) # "False")
                  /\ \A m \in ViewModes :
                         EpisodeVisible(search_term, m, rows[i]) = visible[i]
           /\ (\A i \in 1..Len(rows) :
                   rows[i].episode # 0 =>
                       EQLMatch(search_term[1], rows[i].episode) = "False")
                  => \A i \in 1..Len(rows) : ~visible[i]
    /\ psearch_term # <<>> =>
           \A i \in 1..Len(prows) :
               RealPodcastRow(prows[i]) =>
                   /\ pvisible[i] =
                          (\E c \in 1..3 : Contains(Lower(SearchColumns(prows[i])[c]),
                                                    Lower(psearch_term[1])))
                   /\ \A m \in ViewModes \cup {-1} :
                          PodcastVisible(psearch_term, m, prows[i]) = pvisible[i]

\* a search hides every podcast in mode ALL although some have episodes
VisibleBySearchOnlyWitness ==
    /\ psearch_term # <<>>
    /\ pview_mode = VIEW_ALL
    /\ \E i \in 1..Len(prows) : RealPodcastRow(prows[i]) /\ prows[i].has_episodes
    /\ \A i \in 1..Len(prows) : RealPodcastRow(prows[i]) => ~pvisible[i]

\* C11 as stated: the section headers and the separator of the podcast list
\* are visible in every state.
SentinelsAlwaysVisible ==
    \A i \in 1..Len(prows) :
        prows[i].channel \in {SectionMarker, SeparatorMarker} => pvisible[i]

\* C11, amended: a section header is visible while a search term is set, and
\* without one when its stored flag for the view mode is true (always in mode
\* ALL and in the mode the model starts in); the separator is visible exactly
\* when no search term is set or the term is the empty string.
SentinelsVisibleByRule ==
    \A i \in 1..Len(prows) :
        /\ prows[i].channel = SectionMarker =>
               pvisible[i] =
                   (\/ psearch_term # <<>>
                    \/ pview_mode \notin {VIEW_UNDELETED, VIEW_DOWNLOADED, VIEW_UNPLAYED}
                    \/ PodcastFlag(prows[i], pview_mode))
        /\ prows[i].channel = SeparatorMarker =>
               pvisible[i] = (psearch_term = <<>> \/ psearch_term[1] = <<>>)

\* with no search term, a section header is hidden in mode UNDELETED because
\* its podcasts have no episodes left
SentinelsVisibleWitness ==
    /\ psearch_term = <<>>
    /\ pview_mode = VIEW_UNDELETED
    /\ \E i \in 1..Len(prows) : prows[i].channel = SectionMarker /\ ~pvisible[i]

\* every row of the episode list was written after the last change of its
\* episode, and no search term is set
FullyUpdated ==
    /\ search_term = <<>>
    /\ background_update = <<>>
    /\ ~disturbed
    /\ ~raised

\* C12 as stated: for fully updated rows of episodes that are not being
\* downloaded, mode UNDELETED shows exactly the rows whose episode is not
\* deleted and mode UNPLAYED exactly the rows whose episode is new.
ProjectsByState ==
    FullyUpdated =>
        \A i \in 1..Len(rows) :
            LET a == Attr(entity, rows[i].episode)
            IN  ~a.downloading =>
                    /\ view_mode = VIEW_UNDELETED => visible[i] = (a.state # "deleted")
                    /\ view_mode = VIEW_UNPLAYED => visible[i] = a.is_new

\* C12, amended: mode UNPLAYED shows exactly the rows whose episode is new and
\* not deleted.
ProjectsByStateUndeleted ==
    FullyUpdated =>
        \A i \in 1..Len(rows) :
            LET a == Attr(entity, rows[i].episode)
            IN  ~a.downloading =>
                    /\ view_mode = VIEW_UNDELETED => visible[i] = (a.state # "deleted")
                    /\ view_mode = VIEW_UNPLAYED =>
                           visible[i] = (a.is_new /\ a.state # "deleted")

\* mode UNPLAYED hides the fully updated row of a deleted episode that is new
\* and shows another row
ProjectsByStateWitness ==
    /\ FullyUpdated
    /\ view_mode = VIEW_UNPLAYED
    /\ \E i \in 1..Len(rows) :
           LET a == Attr(entity, rows[i].episode)
           IN  ~a.downloading /\ a.is_new /\ a.state = "deleted" /\ ~visible[i]
    /\ \E i \in 1..Len(rows) : visible[i]

\* C13: a set_view_mode or set_search_term of the episode list that changes
\* the value refilters every row and then notifies the consumer once, with
\* true iff a row is visible under the new mode and term.
NotifiesOnChange ==
    [][(view_mode' # view_mode \/ search_term' # search_term) =>
           /\ \A i \in 1..Len(rows') :
                  visible'[i] = EpisodeVisible(search_term', view_mode', rows'[i])
           /\ Len(visible') = Len(rows')
           /\ filter_changed' = <<(\E i \in 1..Len(rows') : visible'[i])>>]_vars

\* a setter changed the mode or the term of a populated list and notified
\* "no episodes"
NotifiesOnChangeWitness ==
    /\ ~slice.ran
    /\ filter_changed = <<FALSE>>
    /\ Len(rows) > 0
    /\ background_update = <<>>

-----------------------------------------------------------------------------
(* Properties of the thumbnail cache, under CoverSpec *)

\* C14 as stated: two successive thumbnail requests for a url with no
\* invalidation between them return the same pixbuf instance.
SameThumbTwice ==
    \A u \in Urls :
        Len(thumb[u]) = 2 =>
            /\ thumb[u][2].src = thumb[u][1].src
            /\ thumb[u][2].id = thumb[u][1].id

\* C14, amended: they do when the first request returned a pixbuf that was
\* scaled down, which is the one the cache holds.
SameThumbTwiceIfScaled ==
    \A u \in Urls :
        (Len(thumb[u]) = 2 /\ thumb[u][1].id > 0) =>
            /\ thumb[u][2].src = thumb[u][1].src
            /\ thumb[u][2].id = thumb[u][1].id
            /\ u \in DOMAIN cover_cache
            /\ Ident(cover_cache[u]) = <<thumb[u][2].src, thumb[u][2].id>>

\* the second request was made with another image and returned the cached one
SameThumbTwiceWitness ==
    /\ podcast_op.op = "set_channels"
    /\ Len(thumb[1]) = 2
    /\ thumb[1][1].id > 0
    /\ thumb[1][2].id = thumb[1][1].id
    /\ covers[1] # thumb[1][2].src

\* C15 as stated: no pixbuf in the cache carries the pause overlay or the
\* desaturation, and a request made while the podcast is not paused returns
\* a pixbuf without them.
CacheHoldsPlainImages ==
    /\ \A u \in DOMAIN cover_cache : ~cover_cache[u].overlay
    /\ \A u \in Urls : \A k \in 1..Len(thumb[u]) :
           ~thumb[u][k].paused => ~thumb[u][k].overlay

\* C16: add_cover_by_channel(channel, pixbuf) with a pixbuf leaves under
\* channel.url no entry or a pixbuf newly scaled from that image to the
\* current size, and leaves every other entry as it was; with None it leaves
\* the cache as it was.
AddCoverReplacesEntry ==
    [][podcast_op'.op = "add_cover_by_channel" =>
           LET u == podcast_op'.url
               s == podcast_op'.src
           IN  IF s = 0 THEN cover_cache' = cover_cache
               ELSE /\ u \in DOMAIN cover_cache' =>
                           /\ cover_cache'[u].src = s
                           /\ cover_cache'[u].id > scaled
                           /\ cover_cache'[u].side = max_image_side
                           /\ cover_cache'[u].w <= max_image_side
                           /\ cover_cache'[u].h <= max_image_side
                    /\ \A v \in Urls \ {u} :
                           /\ (v \in DOMAIN cover_cache') <=> (v \in DOMAIN cover_cache)
                           /\ v \in DOMAIN cover_cache => cover_cache'[v] = cover_cache[v]]_vars

\* a new cover was scaled into the cache next to the entry of another url
AddCoverReplacesEntryWitness ==
    /\ podcast_op.op = "add_cover_by_channel"
    /\ podcast_op.src = 3
    /\ 1 \in DOMAIN cover_cache
    /\ cover_cache[1].src = 3
    /\ 0 \in DOMAIN cover_cache

\* C17: set_max_image_size leaves the cache empty, and every pixbuf in the
\* cache or returned by a request since was scaled to the current size.
SizeChangeClearsCache ==
    [][/\ podcast_op'.op = "set_max_image_size" => DOMAIN cover_cache' = {}
       /\ \A u \in DOMAIN cover_cache' : cover_cache'[u].side = max_image_side'
       /\ \A u \in Urls : \A k \in 1..Len(thumb'[u]) :
              thumb'[u][k].id > 0 => thumb'[u][k].side = max_image_side']_vars

\* after set_max_image_size(20) a request returned a pixbuf scaled to 20
SizeChangeClearsCacheWitness ==
    /\ max_image_side = 20
    /\ InitialImageSide # 20
    /\ Len(thumb[1]) = 1
    /\ thumb[1][1].id > 1
    /\ thumb[1][1].side = 20

-----------------------------------------------------------------------------
(* Properties of the section headers, under SectionSpec *)

\* the podcasts a section header stands for: the GPodcast rows of its section
MembersOf(i) ==
    {j \in 1..Len(prows) :
        /\ prows[j].channel.kind = "GPodcast"
        /\ Podcast(prows[j].channel.id).section = prows[i].title}

\* the flags of header row i are those of the current sums of its members
HeaderCurrent(i) ==
    LET st == SumStatistics({prows[j].channel.id : j \in MembersOf(i)})
    IN  /\ prows[i].view_show_undeleted = (st[1] - st[2] > 0)
        /\ prows[i].view_show_downloaded = (st[4] + st[3] > 0)
        /\ prows[i].view_show_unplayed = (st[5] + st[3] > 0)

HeaderRows == {i \in 1..Len(prows) : prows[i].channel = SectionMarker}

\* C18 as stated: after update_by_urls on a member podcast, as after
\* update_all and update_sections, the flags of the section header are those
\* of the current sums of the members' statistics.
HeadersFollowMembers ==
    /\ podcast_op.op \in {"update_all", "update_sections"} =>
           \A i \in HeaderRows : HeaderCurrent(i)
    /\ podcast_op.op = "update_by_urls" =>
           \A i \in HeaderRows :
               (\E j \in MembersOf(i) : prows[j].url \in podcast_op.urls) =>
                   HeaderCurrent(i)

\* C18, amended: the flags of a header are those of the current sums after
\* set_channels, update_all and update_sections, which update the header row
\* itself; update_by_urls on member podcasts leaves the header rows as they
\* were.
HeadersFollowHeaderUpdates ==
    [][/\ podcast_op'.op \in {"set_channels", "update_all", "update_sections"} =>
              (\A i \in HeaderRows : HeaderCurrent(i))'
       /\ podcast_op'.op = "update_by_urls" =>
              /\ Len(prows') = Len(prows)
              /\ \A i \in HeaderRows : prows'[i] = prows[i]]_vars

\* a member row was updated by update_by_urls and its header is out of date
HeadersFollowWitness ==
    /\ podcast_op.op = "update_by_urls"
    /\ \E i \in HeaderRows :
           /\ \E j \in MembersOf(i) :
                  /\ prows[j].url \in podcast_op.urls
                  /\ prows[j].view_show_undeleted
           /\ ~prows[i].view_show_undeleted
           /\ ~HeaderCurrent(i)

-----------------------------------------------------------------------------
(* Failures *)

\* C19: while the search term is one whose evaluation raises, every row that
\* holds an episode is shown, whatever the view mode and the flags of the
\* row, and no exception leaves the filter.
FailedSearchShowsRow ==
    search_term # <<>> =>
        /\ ~raised
        /\ \A i \in 1..Len(rows) :
               (rows[i].episode # 0 /\ EQLMatch(search_term[1], rows[i].episode) = "raise")
                   => visible[i]

\* a row whose flag the view mode would hide is shown under the failing term
FailedSearchShowsRowWitness ==
    /\ search_term = << <<40>> >>
    /\ view_mode = VIEW_DOWNLOADED
    /\ \E i \in 1..Len(rows) :
           /\ rows[i].episode # 0
           /\ ~rows[i].view_show_downloaded
           /\ visible[i]

\* C20 as stated: a failure in computing the fields of a queued episode does
\* not leave the slice as an exception, every episode a slice took from the
\* queue was written, and every written row holds the episode of its
\* position.
BatchSurvivesFailure ==
    /\ ~raised
    /\ slice.ran => slice.processed = slice.start_len - slice.remaining
    /\ \A i \in 1..Len(rows) :
           rows[i].episode # 0 =>
               /\ i <= Len(channel.episodes)
               /\ rows[i].episode = channel.episodes[i]

-----------------------------------------------------------------------------
(* Properties of single-row updates, under UpdateSpec *)

-----------------------------------------------------------------------------
(* Frame properties of the view projection, under ViewSpec *)

\* C22: set_view_mode and set_search_term, with the refilter they call, leave
\* the rows of the store, the updater with its queue and position, and its
\* idle source as they were, in both list models.
ProjectionKeepsStore ==
    [][/\ episode_op'.op \in {"set_view_mode", "set_search_term"} =>
              /\ rows' = rows
              /\ background_update' = background_update
              /\ background_update_tag' = background_update_tag
              /\ idle_sources' = idle_sources
              /\ Len(visible') = Len(rows)
       /\ podcast_op'.op \in {"set_view_mode", "set_search_term"} =>
              /\ prows' = prows
              /\ cover_cache' = cover_cache
              /\ Len(pvisible') = Len(prows)]_vars

\* a setter refiltered a populated list while its updater was still queued
ProjectionKeepsStoreWitness ==
    /\ episode_op.op \in {"set_view_mode", "set_search_term"}
    /\ episode_op.refilter
    /\ background_update # <<>>
    /\ background_update[1].episodes # <<>>
    /\ Len(rows) > 0
    /\ \E i \in 1..Len(rows) : ~visible[i]

-----------------------------------------------------------------------------
(* The rows set_channels builds, under ViewSpec *)

\* the positions of the rows of one kind
RowsOfKind(kind) == {i \in 1..Len(prows) : prows[i].channel.kind = kind}

\* the section header a row stands under: the title of the last header before it
HeaderAbove(j) ==
    LET above == {i \in RowsOfKind("SectionMarker") : i < j}
    IN  IF above = {} THEN <<>>
        ELSE <<prows[CHOOSE i \in above : \A k \in above : k <= i].title>>

\* C23: after set_channels with sections there is one header per section key
\* of the podcasts given, every podcast has one row, under the header of its
\* own section, and the store holds the podcasts, the headers and, when
\* wanted and the list is not empty, the "all episodes" row; without sections
\* there is no header and one separator after the "all episodes" row when
\* that row exists.
SetChannelsLayout ==
    podcast_op.op = "set_channels" =>
        LET cl == podcast_op.channels
            ids == {cl[k] : k \in 1..Len(cl)}
            keys == {Podcast(id).group_by : id \in ids}
            headers == RowsOfKind("SectionMarker")
            separators == RowsOfKind("SeparatorMarker")
            proxy == podcast_op.view_all /\ cl # <<>>
        IN  /\ \A id \in ids :
                   Cardinality({j \in 1..Len(prows) : prows[j].channel = PodcastRef(id)}) = 1
            /\ Cardinality(RowsOfKind("GPodcast")) = Len(cl)
            /\ RowsOfKind("PodcastChannelProxy") = IF proxy THEN {1} ELSE {}
            /\ IF podcast_op.sections
               THEN /\ \A key \in keys :
                           Cardinality({i \in headers : prows[i].title = key}) = 1
                    /\ \A i \in headers : prows[i].title \in keys
                    /\ \A j \in RowsOfKind("GPodcast") :
                           HeaderAbove(j) = <<Podcast(prows[j].channel.id).group_by>>
                    /\ separators = {}
                    /\ Len(prows) = Len(cl) + Cardinality(headers)
                                        + (IF proxy THEN 1 ELSE 0)
               ELSE /\ headers = {}
                    /\ separators = IF proxy THEN {2} ELSE {}
                    /\ Len(prows) = Len(cl) + (IF proxy THEN 2 ELSE 0)

\* three podcasts of two sections were listed with sections and "all episodes"
SetChannelsLayoutWitness ==
    /\ podcast_op.op = "set_channels"
    /\ podcast_op.sections
    /\ podcast_op.view_all
    /\ Len(podcast_op.channels) = 3
    /\ Cardinality(RowsOfKind("SectionMarker")) = 2
    /\ Len(prows) = 6

-----------------------------------------------------------------------------
(* Completion of the updater, under LiveSpec *)

\* no updater, no task handle, no idle source
Disarmed ==
    /\ background_update = <<>>
    /\ background_update_tag = 0
    /\ idle_sources = {}

-----------------------------------------------------------------------------
(* The updater and the rows, under Spec *)

-----------------------------------------------------------------------------
(* The view flags of an episode, under ViewSpec *)

\* the three view flags get_update_fields computes for attributes a
FlagsOf(a) ==
    LET f == GetUpdateFields(a, EpId(1, 1), FALSE, FALSE)
    IN  <<f.view_show_undeleted, f.view_show_downloaded, f.view_show_unplayed>>

\* C26: for every episode state the unplayed flag implies the downloaded flag
\* and the downloaded flag the undeleted flag; all three are true while the
\* episode is downloading and false for a deleted episode that is not; and
\* every written row carries nested flags, so that without a search term what
\* UNPLAYED shows DOWNLOADED shows, and what DOWNLOADED shows UNDELETED shows.
FlagsAreNested ==
    /\ \A a \in EpisodeAttrs :
           /\ FlagsOf(a)[3] => FlagsOf(a)[2]
           /\ FlagsOf(a)[2] => FlagsOf(a)[1]
           /\ a.downloading => FlagsOf(a) = <<TRUE, TRUE, TRUE>>
           /\ (~a.downloading /\ a.state = "deleted") => FlagsOf(a) = <<FALSE, FALSE, FALSE>>
    /\ \A i \in 1..Len(rows) :
           rows[i].episode # 0 =>
               /\ rows[i].view_show_unplayed => rows[i].view_show_downloaded
               /\ rows[i].view_show_downloaded => rows[i].view_show_undeleted
               /\ EpisodeVisible(<<>>, VIEW_UNPLAYED, rows[i])
                      => EpisodeVisible(<<>>, VIEW_DOWNLOADED, rows[i])
               /\ EpisodeVisible(<<>>, VIEW_DOWNLOADED, rows[i])
                      => EpisodeVisible(<<>>, VIEW_UNDELETED, rows[i])
               /\ EpisodeVisible(<<>>, VIEW_UNDELETED, rows[i])
                      => EpisodeVisible(<<>>, VIEW_ALL, rows[i])

\* the rows of a channel were written, one of them for an episode that is
\* deleted and being downloaded, with all three flags set
FlagsAreNestedWitness ==
    /\ background_update = <<>>
    /\ Len(rows) = SmallLen
    /\ \E i \in 1..Len(rows) :
           /\ rows[i].episode # 0
           /\ Attr(entity, rows[i].episode).downloading
           /\ Attr(entity, rows[i].episode).state = "deleted"
           /\ rows[i].view_show_unplayed
           /\ rows[i].view_show_undeleted

-----------------------------------------------------------------------------
(* Rows the updater has not written yet, under ViewSpec *)

\* C27: a row the updater has not written yet (no episode bound, the flags as
\* append() left them) is shown exactly when the view mode is ALL and no search
\* term is set: it is hidden under UNDELETED, DOWNLOADED and UNPLAYED and under
\* every search term; so while no row of the store is written, has_episodes
\* is false in each of these settings.
UnwrittenRowsShownOnlyInAll ==
    /\ \A i \in 1..Len(rows) :
           rows[i].episode = 0 =>
               /\ rows[i] = EmptyRow
               /\ visible[i] = (search_term = <<>> /\ view_mode = VIEW_ALL)
    /\ \A m \in ViewModes, t \in OptionalTerms :
           EpisodeVisible(t, m, EmptyRow) = (t = <<>> /\ m = VIEW_ALL)
    /\ ( /\ \A i \in 1..Len(rows) : rows[i].episode = 0
         /\ ~(search_term = <<>> /\ view_mode = VIEW_ALL) )
           => ~HasEpisodes(visible)

\* a channel with episodes was just put into the store under UNDELETED: the
\* updater is scheduled, no row is written and has_episodes is false
UnwrittenRowsWitness ==
    /\ episode_op.op = "replace_from_channel"
    /\ view_mode = VIEW_UNDELETED
    /\ search_term = <<>>
    /\ Len(rows) = SmallLen
    /\ background_update # <<>>
    /\ background_update[1].index = 0
    /\ \A i \in 1..Len(rows) : rows[i].episode = 0
    /\ ~HasEpisodes(visible)

-----------------------------------------------------------------------------
(* Setting the value that is already current, under ViewSpec *)

\* C28: set_view_mode and set_search_term called with the value that is
\* already current do nothing, in the episode list and in the podcast list:
\* no refilter is performed, the consumer is not notified, and the view mode,
\* the search term, the rows and what the filter shows stay as they were.
SettingCurrentValueIsNoOp ==
    [][ /\ ( \/ episode_op'.op = "set_view_mode" /\ view_mode' = view_mode
             \/ episode_op'.op = "set_search_term" /\ search_term' = search_term )
           => /\ ~episode_op'.refilter
              /\ filter_changed' = <<>>
              /\ UNCHANGED <<view_mode, search_term, rows, visible,
                             background_update, background_update_tag,
                             idle_sources>>
        /\ ( \/ podcast_op'.op = "set_view_mode" /\ pview_mode' = pview_mode
             \/ podcast_op'.op = "set_search_term" /\ psearch_term' = psearch_term )
           => /\ ~podcast_op'.refilter
              /\ UNCHANGED <<pview_mode, psearch_term, prows, pvisible>>
      ]_vars

\* set_search_term was called with the term that was already set, on a store
\* with rows of which the filter hides one: nothing was refiltered or notified
SettingCurrentValueWitness ==
    /\ episode_op.op = "set_search_term"
    /\ ~episode_op.refilter
    /\ search_term # <<>>
    /\ filter_changed = <<>>
    /\ Len(rows) > 0
    /\ \E i \in 1..Len(visible) : ~visible[i]

=============================================================================
